---- MODULE Spec2Model ----
(***************************************************************************)
(* Behavioural model of the word-press-render glue code:                   *)
(*   - the AI router        (server/ai-router.ts, strategist.ts, and the   *)
(*                           server.ts / qwen.ts blocks appended to        *)
(*                           production-crm-dashboard.tsx)                 *)
(*   - the CRM dashboard    (production-crm-dashboard.tsx)                 *)
(*   - the checkout handler (unnamed/part_001)                             *)
(* JavaScript strings are TLA+ strings; an optional value (undefined or a  *)
(* value) is a sequence of length 0 or 1.                                  *)
(***************************************************************************)
EXTENDS Integers, Sequences, FiniteSets, TLC

VARIABLES
    ai,         \* AI router: one record per HTTP request to POST /api/ai
    state,      \* Dashboard: the useState record `state`
    ui,         \* Dashboard: the useState record `ui`
    fetches,    \* Dashboard: the number of fetchData calls awaiting their Promise.all
    applied,    \* Dashboard: set when the step just taken folded a change event in:
                \* that event and the state before it
    nEvents,    \* Dashboard: number of change events delivered so far
    fetched,    \* Dashboard: set right after a fetchData call settles, to how its
                \* four requests settled, the error before it and, when the call
                \* failed, the data the state held before it
    failsSince, \* Dashboard: fetchData calls that failed since the last one that
                \* succeeded
    lastEv,     \* Dashboard: per contact id, the last change event applied for it
                \* since the contacts were last loaded, and whether the id was
                \* in the list before that event
    mounted,    \* Dashboard: the mount effect has run
    wp,         \* wpFetch: the call in progress or last ended: loop index, HTTP
                \* attempts issued, how each settled, the wait after each, and the
                \* value returned or error thrown
    wpCalls,    \* wpFetch: number of calls made so far
    lead,       \* Plugin: the REST request being handled, or the last one answered
    nLead,      \* Plugin: number of REST requests so far
    now,        \* Plugin: the server's clock, in seconds
    crm_contacts, \* Plugin: the stored contacts (posts of that type)
    lastUsed,   \* Plugin: last_used of each stored API key row (0: never)
    cron,       \* Plugin: the scheduled single events
    co,         \* Checkout: one record per HTTP request to the handler
    sessions,   \* Checkout: the payment sessions created at the payment service,
                \* each with the request whose call created it
    reqs,       \* Plugin, concurrent requests: one record per lead request that is
                \* handled at the same time as the others
    cronRan,    \* Plugin: the scheduled events that cron has run
    reposted,   \* Plugin: the webhook payloads posted again by a retry
    journeys,   \* Funnel workflow: the rows of contact_journeys
    executed,   \* Funnel workflow: per journey, the step_order of every step
                \* whose execution completed, in order (history)
    wfRun,      \* Funnel workflow: the run in progress or last ended
    wfNow       \* Funnel workflow: the clock, in minutes

vars == <<ai, state, ui, fetches, applied, nEvents, fetched, failsSince, lastEv, mounted,
          wp, wpCalls, lead, nLead, now, crm_contacts, lastUsed, cron, co, sessions,
          reqs, cronRan, reposted, journeys, executed, wfRun, wfNow>>
aiVars == <<ai>>
dashVars == <<state, ui, fetches, applied, nEvents, fetched, failsSince, lastEv, mounted>>
wpVars == <<wp, wpCalls>>
leadVars == <<lead, nLead, now, crm_contacts, lastUsed, cron>>
coVars == <<co, sessions>>
concVars == <<reqs, cronRan, reposted>>
funnelVars == <<journeys, executed, wfRun, wfNow>>
moreVars == <<concVars, funnelVars>>

\* ---------------------------------------------------------------- optional values
None == <<>>
Some(v) == <<v>>
IsSome(o) == Len(o) = 1
Val(o) == o[1]

\* ---------------------------------------------------------------- bounds
MaxAIReq == 2
MaxEvents == 2
MaxInFlight == 2
MaxRetryCount == 3
MaxCoReq == 2
MaxWpCalls == 2
MaxLeadReq == 2
MaxConcReq == 2
MaxCronWaits == 2
MaxRuns == 3
NJourneys == 52

\* ======================================================================
\* AI router
\* ======================================================================

UpperChars == "ABCDEFGHIJKLMNOPQRSTUVWXYZ"
LowerChars == "abcdefghijklmnopqrstuvwxyz"

\* The i-th character of s, as a one-character string.
CharAt(s, i) == SubSeq(s, i, i)

\* Case folding of the /i flag, for one character.
FoldChar(c) ==
    IF \E i \in 1..26 : CharAt(UpperChars, i) = c
    THEN CharAt(LowerChars, CHOOSE i \in 1..26 : CharAt(UpperChars, i) = c)
    ELSE c

\* The alternatives of /strategy|plan|sequence|long-form|campaign/i
Keywords == {"strategy", "plan", "sequence", "long-form", "campaign"}

\* keyword k occurs in s at position i, ignoring case
MatchesAt(s, i, k) ==
    /\ i + Len(k) - 1 <= Len(s)
    /\ \A j \in 1..Len(k) : FoldChar(CharAt(s, i + j - 1)) = CharAt(k, j)

\* input.match(/strategy|plan|sequence|long-form|campaign/i) is not null
MatchesKeyword(input) ==
    \E k \in Keywords : \E i \in 1..Len(input) : MatchesAt(input, i, k)

FastMaxLen == 280

\* Mutant: the negation of the keyword test is lost.
UseFastPath_KeywordNotNegated(input) ==
    Len(input) < FastMaxLen /\ MatchesKeyword(input)

\* Mutant: the length test admits the threshold itself.
UseFastPath_LengthInclusive(input) ==
    Len(input) <= FastMaxLen /\ ~MatchesKeyword(input)

\* The condition of the `if` of routeAIRequest.
UseFastPath(input) ==
    Len(input) < FastMaxLen /\ ~MatchesKeyword(input)

\* language = 'en' default parameter of askQwen / askStrategist
LanguageOrDefault(language) == IF IsSome(language) THEN Val(language) ELSE "en"

\* `Respond in ${language}. ${input}`
Prompt(language, input) ==
    "Respond in " \o LanguageOrDefault(language) \o ". " \o input

QwenPost(body) ==
    [model |-> "qwen:0.5b", prompt |-> Prompt(body.language, Val(body.input)), stream |-> FALSE]

StrategistPost(body) ==
    [model |-> "mixtral", prompt |-> Prompt(body.language, Val(body.input)), stream |-> FALSE]

\* What the upstream inference endpoint can do with one POST /api/generate.
UpstreamOutcomes ==
    { [kind |-> "ok", response |-> "Bonjour"],
      [kind |-> "ok", response |-> ""],
      [kind |-> "error", response |-> ""] }

\* How routeAIRequest settled: resolved with a string, or threw.
Resolved(s) == [threw |-> FALSE, value |-> s]
Threw == [threw |-> TRUE, value |-> ""]

\* askQwen: try { return response.data.response || '...' } catch { return '...' }
AskQwen(outcome) ==
    IF outcome.kind = "error" THEN Resolved("Qwen unavailable.")
    ELSE IF outcome.response = "" THEN Resolved("No response from Qwen.")
    ELSE Resolved(outcome.response)

\* Mutant: no try/catch around the upstream call.
AskStrategist_NoCatch(outcome) ==
    IF outcome.kind = "error" THEN Threw
    ELSE IF outcome.response = "" THEN Resolved("No response from strategist.")
    ELSE Resolved(outcome.response)

\* askStrategist: same shape, its own strings
AskStrategist(outcome) ==
    IF outcome.kind = "error" THEN Resolved("Strategist unavailable.")
    ELSE IF outcome.response = "" THEN Resolved("No response from strategist.")
    ELSE Resolved(outcome.response)

\* const quickReply = await askQwen(...); return `[Qwen] ${quickReply}`
\* (a rejection of the awaited call would propagate)
RouteAfterQwen(backend) ==
    IF backend.threw THEN Threw ELSE Resolved("[Qwen] " \o backend.value)

\* const strategicResponse = await askStrategist(...);
\* return `[Strategist] ${strategicResponse}`
RouteAfterStrategist(backend) ==
    IF backend.threw THEN Threw ELSE Resolved("[Strategist] " \o backend.value)

\* Mutant: the catch block logs and sends nothing.
HandlerReplies_SilentCatch(settled) ==
    IF settled.threw
    THEN << >>
    ELSE << [status |-> 200, field |-> "response", text |-> settled.value] >>

\* server.ts: try { res.json({response}) } catch { res.status(500).json({error}) }
HandlerReplies(settled) ==
    IF settled.threw
    THEN << [status |-> 500, field |-> "error", text |-> "AI routing failed"] >>
    ELSE << [status |-> 200, field |-> "response", text |-> settled.value] >>

RECURSIVE Repeat(_, _)
Repeat(s, n) ==
    IF n = 0 THEN ""
    ELSE IF n % 2 = 0 THEN LET h == Repeat(s, n \div 2) IN h \o h
    ELSE s \o Repeat(s, n - 1)

\* Request inputs: short and long ones, with and without a keyword, keywords in
\* mixed case and inside other words, near misses, and inputs on both sides of
\* the length threshold.
AIInputs ==
    { "hi", "my Plan", "CAMPAIGN", "a long-form post", "longform pla n",
      "Explanation", Repeat("x", 279), Repeat("x", 280),
      Repeat("x", 272) \o "Sequence" }

\* UseFastPath over the request inputs, evaluated once.
FastPathOf == [s \in AIInputs |-> UseFastPath(s)]

\* req.body: input may be missing at run time (the type is not enforced)
AIBodies ==
    [input : {Some(s) : s \in AIInputs} \cup {None},
     language : {None, Some("fr")},
     userId : {"u1"}]

AIIdle ==
    [st |-> "idle", body |-> [input |-> None, language |-> None, userId |-> ""],
     qwenCalls |-> 0, stratCalls |-> 0, posts |-> <<>>,
     outcome |-> None, backend |-> None, settled |-> None, replies |-> <<>>]

AIReqIds == 1..MaxAIReq

\* Mutant: a circuit breaker. Once the fast backend has failed for some request,
\* later requests are sent to the deep backend whatever their input.
PostApiAi_AvoidsFailedBackend(r, body) ==
    /\ ai[r].st = "idle"
    /\ LET qwenFailed == \E q \in DOMAIN ai :
                             /\ ai[q].qwenCalls > 0
                             /\ ai[q].outcome = Some([kind |-> "error", response |-> ""])
       IN IF ~IsSome(body.input)
          THEN ai' = [ai EXCEPT ![r] = [@ EXCEPT !.st = "done", !.body = body,
                                          !.settled = Some(Threw),
                                          !.replies = @ \o HandlerReplies(Threw)]]
          ELSE IF FastPathOf[Val(body.input)] /\ ~qwenFailed
          THEN ai' = [ai EXCEPT ![r] = [@ EXCEPT !.st = "qwen", !.body = body,
                                          !.qwenCalls = @ + 1,
                                          !.posts = Append(@, QwenPost(body))]]
          ELSE ai' = [ai EXCEPT ![r] = [@ EXCEPT !.st = "strategist", !.body = body,
                                          !.stratCalls = @ + 1,
                                          !.posts = Append(@, StrategistPost(body))]]
    /\ UNCHANGED <<dashVars, wpVars, leadVars, coVars, moreVars>>

\* POST /api/ai arrives: the handler calls routeAIRequest(req.body), which runs up
\* to its first await (the axios.post inside the chosen backend), or throws on
\* `input.length` when input is undefined; a throw is answered at once.
PostApiAi(r, body) ==
    /\ ai[r].st = "idle"
    /\ IF ~IsSome(body.input)
       THEN ai' = [ai EXCEPT ![r] = [@ EXCEPT !.st = "done", !.body = body,
                                       !.settled = Some(Threw),
                                       !.replies = @ \o HandlerReplies(Threw)]]
       ELSE IF FastPathOf[Val(body.input)]
       THEN ai' = [ai EXCEPT ![r] = [@ EXCEPT !.st = "qwen", !.body = body,
                                       !.qwenCalls = @ + 1,
                                       !.posts = Append(@, QwenPost(body))]]
       ELSE ai' = [ai EXCEPT ![r] = [@ EXCEPT !.st = "strategist", !.body = body,
                                       !.stratCalls = @ + 1,
                                       !.posts = Append(@, StrategistPost(body))]]
    /\ UNCHANGED <<dashVars, wpVars, leadVars, coVars, moreVars>>

\* The upstream call of askQwen settles; askQwen returns, routeAIRequest returns
\* the tagged string and the handler replies.
QwenSettles(r, outcome) ==
    /\ ai[r].st = "qwen"
    /\ LET backend == AskQwen(outcome)
           res == RouteAfterQwen(backend)
       IN ai' = [ai EXCEPT ![r] = [@ EXCEPT !.st = "done", !.settled = Some(res),
                                     !.outcome = Some(outcome),
                                     !.backend = Some(backend),
                                     !.replies = @ \o HandlerReplies(res)]]
    /\ UNCHANGED <<dashVars, wpVars, leadVars, coVars, moreVars>>

\* The upstream call of askStrategist settles.
StrategistSettles(r, outcome) ==
    /\ ai[r].st = "strategist"
    /\ LET backend == AskStrategist(outcome)
           res == RouteAfterStrategist(backend)
       IN ai' = [ai EXCEPT ![r] = [@ EXCEPT !.st = "done", !.settled = Some(res),
                                     !.outcome = Some(outcome),
                                     !.backend = Some(backend),
                                     !.replies = @ \o HandlerReplies(res)]]
    /\ UNCHANGED <<dashVars, wpVars, leadVars, coVars, moreVars>>

AIInit == ai = [r \in AIReqIds |-> AIIdle]

AINext ==
    \/ \E r \in AIReqIds, body \in AIBodies : PostApiAi(r, body)
    \/ \E r \in AIReqIds, o \in UpstreamOutcomes : QwenSettles(r, o)
    \/ \E r \in AIReqIds, o \in UpstreamOutcomes : StrategistSettles(r, o)

\* ======================================================================
\* Dashboard
\* ======================================================================

ContactsLimit == 100
SliceEnd == 99
ErrorScreenRetries == 3

Min(a, b) == IF a < b THEN a ELSE b

\* Array.prototype.slice(0, n)
Slice0(s, n) == SubSeq(s, 1, Min(n, Len(s)))

\* useState initial values
StateInit ==
    [contacts |-> <<>>, campaigns |-> <<>>, funnels |-> <<>>, analytics |-> <<>>,
     loading |-> TRUE, error |-> None, retryCount |-> 0]

UIInit == [refreshing |-> FALSE, selectedTimeRange |-> "30d"]

\* Rows the contacts table can return: n rows, ids 1..n, at most ContactsLimit.
ContactRows(n) == [i \in 1..n |-> [id |-> i, name |-> "db"]]
FetchedContacts == { ContactRows(n) : n \in {0, ContactsLimit} }

\* Change-feed payloads: eventType, payload.new (a row or absent),
\* payload.old.id (or absent). Id 1 is in every non-empty fetched list, id
\* ContactsLimit only in a full one.
EventIds == {1, ContactsLimit}
EventRow(i) == [id |-> i, name |-> "ev"]
ChangePayloads ==
    { [eventType |-> "INSERT", new |-> Some(EventRow(i)), oldId |-> None] : i \in EventIds }
    \cup { [eventType |-> "UPDATE", new |-> Some(EventRow(i)), oldId |-> Some(i)] : i \in EventIds }
    \cup { [eventType |-> "DELETE", new |-> None, oldId |-> Some(i)] : i \in EventIds }
    \cup { [eventType |-> "TRUNCATE", new |-> None, oldId |-> None] }

\* Mutant: the comparison of the filter is inverted (=== for !==).
DeleteContact_KeepsMatch(contacts, payload) ==
    SelectSeq(contacts, LAMBDA c : IsSome(payload.oldId) /\ c.id = Val(payload.oldId))

\* newContacts.filter(c => c.id !== payload.old?.id)
DeleteContact(contacts, payload) ==
    SelectSeq(contacts, LAMBDA c : ~(IsSome(payload.oldId) /\ c.id = Val(payload.oldId)))

\* Mutant: the new row is put in front of the whole list, without a slice.
InsertContact_NoSlice(contacts, payload) ==
    <<Val(payload.new)>> \o contacts

\* Mutant: the slice keeps as many entries as the cap, one too many.
InsertContact_SliceToCap(contacts, payload) ==
    <<Val(payload.new)>> \o Slice0(contacts, ContactsLimit)

\* [payload.new, ...newContacts.slice(0, 99)]
InsertContact(contacts, payload) ==
    <<Val(payload.new)>> \o Slice0(contacts, SliceEnd)

\* Mutant: an update for an unknown id is added to the list (an upsert).
UpdateContact_Upsert(contacts, payload) ==
    IF \E i \in 1..Len(contacts) : contacts[i].id = Val(payload.new).id
    THEN [i \in 1..Len(contacts) |->
            IF contacts[i].id = Val(payload.new).id THEN Val(payload.new) ELSE contacts[i]]
    ELSE <<Val(payload.new)>> \o contacts

\* newContacts.map(c => c.id === payload.new?.id ? payload.new : c)
UpdateContact(contacts, payload) ==
    [i \in 1..Len(contacts) |->
        IF IsSome(payload.new) /\ contacts[i].id = Val(payload.new).id
        THEN Val(payload.new) ELSE contacts[i]]

\* Mutant: first event wins. An INSERT for an id the list already holds is
\* dropped instead of being put in front.
ContactsReducer_InsertIfAbsent(prev, payload) ==
    IF payload.eventType = "DELETE"
    THEN [prev EXCEPT !.contacts = DeleteContact(prev.contacts, payload)]
    ELSE IF payload.eventType = "INSERT"
    THEN IF \E i \in 1..Len(prev.contacts) : prev.contacts[i].id = Val(payload.new).id
         THEN prev
         ELSE [prev EXCEPT !.contacts = InsertContact(prev.contacts, payload)]
    ELSE IF payload.eventType = "UPDATE"
    THEN [prev EXCEPT !.contacts = UpdateContact(prev.contacts, payload)]
    ELSE prev

\* Mutant: an event of another type empties the list and ends the loading state.
ContactsReducer_OtherResets(prev, payload) ==
    IF payload.eventType = "DELETE"
    THEN [prev EXCEPT !.contacts = DeleteContact(prev.contacts, payload)]
    ELSE IF payload.eventType = "INSERT"
    THEN [prev EXCEPT !.contacts = InsertContact(prev.contacts, payload)]
    ELSE IF payload.eventType = "UPDATE"
    THEN [prev EXCEPT !.contacts = UpdateContact(prev.contacts, payload)]
    ELSE [prev EXCEPT !.contacts = <<>>, !.loading = FALSE]

\* The updater passed to setState by the subscription callback.
ContactsReducer(prev, payload) ==
    IF payload.eventType = "DELETE"
    THEN [prev EXCEPT !.contacts = DeleteContact(prev.contacts, payload)]
    ELSE IF payload.eventType = "INSERT"
    THEN [prev EXCEPT !.contacts = InsertContact(prev.contacts, payload)]
    ELSE IF payload.eventType = "UPDATE"
    THEN [prev EXCEPT !.contacts = UpdateContact(prev.contacts, payload)]
    ELSE prev

\* The ids an event is about: payload.new.id and payload.old.id where present.
PayloadIds(payload) ==
    (IF IsSome(payload.new) THEN {Val(payload.new).id} ELSE {})
    \cup (IF IsSome(payload.oldId) THEN {Val(payload.oldId)} ELSE {})

HasId(contacts, id) == \E i \in 1..Len(contacts) : contacts[i].id = id

\* The subscription delivers a change event and the callback folds it in.
ChangeEvent(payload) ==
    /\ mounted
    /\ nEvents < MaxEvents
    /\ nEvents' = nEvents + 1
    /\ state' = ContactsReducer(state, payload)
    /\ applied' = Some([payload |-> payload, before |-> state, uiBefore |-> ui])
    /\ fetched' = None
    /\ lastEv' = [i \in EventIds |->
                    IF i \in PayloadIds(payload)
                    THEN Some([payload |-> payload, had |-> HasId(state.contacts, i)])
                    ELSE lastEv[i]]
    /\ UNCHANGED <<ui, fetches, failsSince, mounted, aiVars, wpVars, leadVars, coVars, moreVars>>

\* What Promise.allSettled([campaigns, funnels, analytics]) can deliver: each
\* wpFetch fulfilled with a value or rejected.
WpResults ==
    [campaigns : {None, Some(<<"c1">>)},
     funnels : {None, Some(<<"f1">>)},
     analytics : {None, Some(<<"a1">>)}]

\* The contacts query can fail while the three endpoint calls all succeed, or
\* while they all fail too.
WpResultsAtReject ==
    { r \in WpResults : IsSome(r.campaigns) = IsSome(r.funnels)
                        /\ IsSome(r.funnels) = IsSome(r.analytics) }

\* Mutant: the page's data is stored only when every endpoint answered; one
\* failed endpoint empties all three.
WpData_AllOrNothing(results) ==
    IF IsSome(results.campaigns) /\ IsSome(results.funnels) /\ IsSome(results.analytics)
    THEN [campaigns |-> Val(results.campaigns), funnels |-> Val(results.funnels),
          analytics |-> Val(results.analytics)]
    ELSE [campaigns |-> <<>>, funnels |-> <<>>, analytics |-> <<>>]

\* results[k].status === 'fulfilled' ? results[k].value : [] (or {})
WpData(results) ==
    [campaigns |-> IF IsSome(results.campaigns) THEN Val(results.campaigns) ELSE <<>>,
     funnels |-> IF IsSome(results.funnels) THEN Val(results.funnels) ELSE <<>>,
     analytics |-> IF IsSome(results.analytics) THEN Val(results.analytics) ELSE <<>>]

\* fetchData up to its await: the two state updates at its head.
FetchBegin(isRefresh) ==
    /\ fetches < MaxInFlight
    /\ state' = [state EXCEPT !.loading = ~isRefresh, !.error = None]
    /\ ui' = [ui EXCEPT !.refreshing = isRefresh]
    /\ fetches' = fetches + 1
    /\ applied' = None
    /\ fetched' = None
    /\ UNCHANGED <<nEvents, failsSince, lastEv, aiVars, wpVars, leadVars, coVars, moreVars>>

\* useEffect(() => { fetchData() }, [fetchData]) on mount
MountFetch ==
    /\ ~mounted
    /\ mounted' = TRUE
    /\ FetchBegin(FALSE)

\* setInterval callback: if (!state.loading && !ui.refreshing) fetchData(true)
TimerFetch ==
    /\ mounted
    /\ UNCHANGED mounted
    /\ ~state.loading /\ ~ui.refreshing
    /\ FetchBegin(TRUE)

\* Mutant: the error screen does not wait for three failures.
ShowsErrorScreen_OnAnyError == IsSome(state.error)

\* if (state.error && state.retryCount >= 3): the error screen replaces the
\* normal one, Refresh button (disabled={ui.refreshing}) included.
ShowsErrorScreen == IsSome(state.error) /\ state.retryCount >= ErrorScreenRetries

HandleRefresh ==
    /\ mounted
    /\ UNCHANGED mounted
    /\ ~ShowsErrorScreen
    /\ ~ui.refreshing
    /\ FetchBegin(TRUE)

\* Try Again button of the error screen
HandleRetry ==
    /\ ShowsErrorScreen
    /\ UNCHANGED mounted
    /\ FetchBegin(FALSE)

\* The four fetched resources as the state holds them.
DataOf(st) ==
    [contacts |-> st.contacts, campaigns |-> st.campaigns,
     funnels |-> st.funnels, analytics |-> st.analytics]

\* payload.new of the change event folded in by the step before this one, if
\* that step was a change event (history only, recorded when a fetch succeeds;
\* a failed fetch records the whole data it left alone instead).
FoldedNew == IF IsSome(applied) THEN Val(applied).payload.new ELSE None

\* Mutant: the success update merges instead of replacing: the row of a change
\* event folded in just before is kept in front of the fetched rows.
FetchResolves_KeepsFolded(rows, results) ==
    /\ fetches > 0
    /\ state' = [state EXCEPT !.contacts = IF IsSome(FoldedNew)
                                            THEN <<Val(FoldedNew)>> \o Slice0(rows, SliceEnd)
                                            ELSE rows,
                              !.campaigns = WpData(results).campaigns,
                              !.funnels = WpData(results).funnels,
                              !.analytics = WpData(results).analytics,
                              !.loading = FALSE,
                              !.retryCount = 0]
    /\ ui' = [ui EXCEPT !.refreshing = FALSE]
    /\ fetches' = fetches - 1
    /\ applied' = None
    /\ fetched' = Some([contacts |-> Some(rows), results |-> results,
                         errorBefore |-> state.error, dataBefore |-> None,
                         foldedNew |-> FoldedNew])
    /\ failsSince' = 0
    /\ lastEv' = [i \in EventIds |-> None]
    /\ UNCHANGED <<nEvents, mounted, aiVars, wpVars, leadVars, coVars, moreVars>>

\* Promise.all resolved: the success setState, then finally.
FetchResolves(rows, results) ==
    /\ fetches > 0
    /\ state' = [state EXCEPT !.contacts = rows,
                              !.campaigns = WpData(results).campaigns,
                              !.funnels = WpData(results).funnels,
                              !.analytics = WpData(results).analytics,
                              !.loading = FALSE,
                              !.retryCount = 0]
    /\ ui' = [ui EXCEPT !.refreshing = FALSE]
    /\ fetches' = fetches - 1
    /\ applied' = None
    /\ fetched' = Some([contacts |-> Some(rows), results |-> results,
                         errorBefore |-> state.error, dataBefore |-> None,
                         foldedNew |-> FoldedNew])
    /\ failsSince' = 0
    /\ lastEv' = [i \in EventIds |-> None]
    /\ UNCHANGED <<nEvents, mounted, aiVars, wpVars, leadVars, coVars, moreVars>>

\* The contacts query failed, so Promise.all rejected, whatever the three
\* endpoint calls did or will do: the catch setState, then finally.
FetchRejects(message, results) ==
    /\ fetches > 0
    /\ state.retryCount < MaxRetryCount
    /\ state' = [state EXCEPT !.error = Some(message),
                              !.loading = FALSE,
                              !.retryCount = @ + 1]
    /\ ui' = [ui EXCEPT !.refreshing = FALSE]
    /\ fetches' = fetches - 1
    /\ applied' = None
    /\ fetched' = Some([contacts |-> None, results |-> results,
                         errorBefore |-> state.error, dataBefore |-> Some(DataOf(state)),
                         foldedNew |-> None])
    /\ failsSince' = failsSince + 1
    /\ UNCHANGED <<nEvents, lastEv, mounted, aiVars, wpVars, leadVars, coVars, moreVars>>

DashInit ==
    /\ state = StateInit
    /\ ui = UIInit
    /\ fetches = 0
    /\ applied = None
    /\ nEvents = 0
    /\ fetched = None
    /\ failsSince = 0
    /\ lastEv = [i \in EventIds |-> None]
    /\ mounted = FALSE

DashNext ==
    \/ MountFetch
    \/ TimerFetch
    \/ HandleRefresh
    \/ HandleRetry
    \/ \E rows \in FetchedContacts, results \in WpResults : FetchResolves(rows, results)
    \/ \E results \in WpResultsAtReject : FetchRejects("Failed to load data", results)
    \/ \E payload \in ChangePayloads : ChangeEvent(payload)

\* ======================================================================
\* wpFetch: the dashboard's client for the CMS REST API
\* ======================================================================

DefaultRetries == 3
BackoffUnitMs == 1000

\* 2^n, as Math.pow(2, n) for the loop indices
RECURSIVE Pow2(_)
Pow2(n) == IF n = 0 THEN 1 ELSE 2 * Pow2(n - 1)

\* How one fetch(url, ...) can settle: with a response (its status, whether its
\* content type includes application/json, whether its body parses as JSON, and
\* the value it parses to), or rejected (a network error, or the AbortError of
\* the 10 s timeout).
WpStatuses == {200, 404, 500, 503}
WpResponse(status, contentJson, parses) ==
    [kind |-> "response", status |-> status, contentJson |-> contentJson,
     parses |-> parses, data |-> IF parses THEN "data" ELSE "", name |-> ""]
WpRejection(name) ==
    [kind |-> "rejected", status |-> 0, contentJson |-> FALSE, parses |-> FALSE,
     data |-> "", name |-> name]
FetchOutcomes ==
    { WpResponse(200, cj, p) : cj \in BOOLEAN, p \in BOOLEAN }
    \cup { WpResponse(s, FALSE, FALSE) : s \in WpStatuses \ {200} }
    \cup { WpRejection("TypeError"), WpRejection("AbortError") }

\* response.ok
ResponseOk(o) == o.status >= 200 /\ o.status <= 299

\* `HTTP ${response.status}: ...`
StatusText(status) ==
    CASE status = 404 -> "HTTP 404"
      [] status = 500 -> "HTTP 500"
      [] status = 503 -> "HTTP 503"
      [] OTHER -> "HTTP"

\* What one pass through the try block does with the settled fetch: return a
\* value, wait and continue, or throw.
WpReturn(value) == [do |-> "return", value |-> value, ms |-> 0, name |-> "", message |-> ""]
WpBackoff(ms) == [do |-> "backoff", value |-> "", ms |-> ms, name |-> "", message |-> ""]
WpThrow(name, message) ==
    [do |-> "throw", value |-> "", ms |-> 0, name |-> name, message |-> message]

\* Mutant: the last attempt backs off too (i <= retries for i < retries).
TryBlock_BackoffOnLast(o, i, retries) ==
    IF o.kind = "rejected" THEN WpThrow(o.name, "fetch failed")
    ELSE IF ~ResponseOk(o)
    THEN IF o.status >= 500 /\ i <= retries
         THEN WpBackoff(Pow2(i) * BackoffUnitMs)
         ELSE WpThrow("Error", StatusText(o.status))
    ELSE IF ~o.contentJson THEN WpThrow("Error", "Invalid response format")
    ELSE IF ~o.parses THEN WpThrow("SyntaxError", "Unexpected token")
    ELSE WpReturn(o.data)

\* The try block of iteration i, from the settled fetch on.
TryBlock(o, i, retries) ==
    IF o.kind = "rejected" THEN WpThrow(o.name, "fetch failed")
    ELSE IF ~ResponseOk(o)
    THEN IF o.status >= 500 /\ i < retries
         THEN WpBackoff(Pow2(i) * BackoffUnitMs)
         ELSE WpThrow("Error", StatusText(o.status))
    ELSE IF ~o.contentJson THEN WpThrow("Error", "Invalid response format")
    ELSE IF ~o.parses THEN WpThrow("SyntaxError", "Unexpected token")
    ELSE WpReturn(o.data)

\* The catch block of iteration i: rethrow on the last iteration, turn a
\* timeout into 'Request timeout', and otherwise fall out of the catch, which
\* lets the loop go on.
WpSwallow == [do |-> "next", value |-> "", ms |-> 0, name |-> "", message |-> ""]
CatchBlock(err, i, retries) ==
    IF i = retries THEN err
    ELSE IF err.name = "AbortError" THEN WpThrow("Error", "Request timeout")
    ELSE WpSwallow

\* One iteration: the try block, and the catch block when it threw.
Iteration(o, i, retries) ==
    LET t == TryBlock(o, i, retries)
    IN IF t.do = "throw" THEN CatchBlock(t, i, retries) ELSE t

WpIdle ==
    [st |-> "idle", i |-> 0, attempts |-> 0, seen |-> <<>>, waits |-> <<>>,
     result |-> None, error |-> None]

\* for (...; i <= retries; i++): the next iteration issues a fetch; past the
\* last one the function ends without a return statement.
LoopStep(w, i, retries) ==
    IF i <= retries
    THEN [w EXCEPT !.st = "fetching", !.i = i, !.attempts = @ + 1]
    ELSE [w EXCEPT !.st = "returned", !.i = i, !.result = None]

\* wpFetch(endpoint) is called: the configuration check, then the first fetch.
WpFetchCall(configured) ==
    /\ wp.st \in {"idle", "returned", "threw"}
    /\ wpCalls < MaxWpCalls
    /\ wpCalls' = wpCalls + 1
    /\ wp' = IF ~configured
             THEN [WpIdle EXCEPT !.st = "threw",
                                 !.error = Some([name |-> "Error",
                                                 message |-> "WordPress configuration missing"])]
             ELSE LoopStep(WpIdle, 0, DefaultRetries)
    /\ UNCHANGED <<aiVars, dashVars, leadVars, coVars, moreVars>>

\* The awaited fetch settles and the rest of the iteration runs, up to the next
\* await.
AttemptSettles(o) ==
    /\ wp.st = "fetching"
    /\ LET it == Iteration(o, wp.i, DefaultRetries)
           w == [wp EXCEPT !.seen = Append(@, o), !.waits = Append(@, it.ms)]
       IN wp' = CASE it.do = "return" -> [w EXCEPT !.st = "returned", !.result = Some(it.value)]
                  [] it.do = "throw" ->
                       [w EXCEPT !.st = "threw",
                                 !.error = Some([name |-> it.name, message |-> it.message])]
                  [] it.do = "backoff" -> [w EXCEPT !.st = "waiting"]
                  [] OTHER -> LoopStep(w, wp.i + 1, DefaultRetries)
    /\ UNCHANGED <<wpCalls, aiVars, dashVars, leadVars, coVars, moreVars>>

\* The backoff timer fires: continue.
BackoffElapses ==
    /\ wp.st = "waiting"
    /\ wp' = LoopStep(wp, wp.i + 1, DefaultRetries)
    /\ UNCHANGED <<wpCalls, aiVars, dashVars, leadVars, coVars, moreVars>>

WpInit ==
    /\ wp = WpIdle
    /\ wpCalls = 0

WpNext ==
    \/ \E configured \in BOOLEAN : WpFetchCall(configured)
    \/ \E o \in FetchOutcomes : AttemptSettles(o)
    \/ BackoffElapses

\* ======================================================================
\* Lead ingestion plugin: REST routes of enterprise-crm/v1
\* ======================================================================

RetryDelaySeconds == 300

\* ---- strings
IndexFrom(s, c, from) ==
    LET hits == { k \in from..Len(s) : SubSeq(s, k, k) = c }
    IN IF hits = {} THEN 0 ELSE CHOOSE k \in hits : \A j \in hits : k <= j

\* is_email, the validate_callback of the email argument: at least 6
\* characters, an @ after the first character, and a domain of two or more
\* non-empty labels.
IsEmail(s) ==
    /\ Len(s) >= 6
    /\ IndexFrom(s, "@", 2) > 0
    /\ LET at == IndexFrom(s, "@", 1)
           domain == SubSeq(s, at + 1, Len(s))
       IN /\ at > 1
          /\ IndexFrom(domain, "@", 1) = 0
          /\ IndexFrom(domain, ".", 1) > 1
          /\ SubSeq(domain, Len(domain), Len(domain)) # "."
          /\ \A k \in 1..(Len(domain) - 1) : SubSeq(domain, k, k + 1) # ".."

\* sanitize_text_field, as far as the inputs go: surrounding spaces are removed.
RECURSIVE SanitizeTextField(_)
SanitizeTextField(s) ==
    IF Len(s) > 0 /\ SubSeq(s, 1, 1) = " " THEN SanitizeTextField(SubSeq(s, 2, Len(s)))
    ELSE IF Len(s) > 0 /\ SubSeq(s, Len(s), Len(s)) = " "
    THEN SanitizeTextField(SubSeq(s, 1, Len(s) - 1))
    ELSE s

\* sanitize_email: characters that cannot be in an address (here: spaces) are
\* dropped.
RECURSIVE SanitizeEmail(_)
SanitizeEmail(s) ==
    IF Len(s) = 0 THEN ""
    ELSE (IF SubSeq(s, 1, 1) = " " THEN "" ELSE SubSeq(s, 1, 1))
         \o SanitizeEmail(SubSeq(s, 2, Len(s)))

\* PHP empty() of an array element: unset, "" and "0" are empty.
Empty(opt) == ~IsSome(opt) \/ Val(opt) = "" \/ Val(opt) = "0"

\* ---- routes (register_api_routes)
LeadsRoute ==
    [path |-> "/leads", methods |-> "POST", callback |-> "create_contact",
     required |-> {"email", "first_name"}]
FunnelTriggerRoute ==
    [path |-> "/funnels/(?P<id>\\d+)/trigger", methods |-> "POST",
     callback |-> "trigger_funnel", required |-> {}]
TemplatesRoute ==
    [path |-> "/templates", methods |-> "GET", callback |-> "get_templates", required |-> {}]
AnalyticsRoute ==
    [path |-> "/analytics", methods |-> "GET", callback |-> "get_analytics", required |-> {}]
Routes == {LeadsRoute, FunnelTriggerRoute, TemplatesRoute, AnalyticsRoute}

\* The methods of EnterpriseCRMIntegration that a route names and the class
\* defines. trigger_funnel, get_templates and get_analytics are registered as
\* callbacks but are not defined.
DefinedCallbacks == {"create_contact", "verify_api_key"}

\* ---- responses
RestError(status, code) ==
    [status |-> status, code |-> code, success |-> FALSE, contact_id |-> 0,
     webhook_triggered |-> FALSE]
RestOk(status, contact_id, webhook_triggered) ==
    [status |-> status, code |-> "", success |-> TRUE, contact_id |-> contact_id,
     webhook_triggered |-> webhook_triggered]

\* What the REST server does with a matched route before it calls the
\* permission callback: a callback that is not callable is a 500; a required
\* argument that is absent, or an argument its validate_callback rejects, is a
\* 400. None when the request goes on to the permission callback.
BeforeCallbacks(route, params) ==
    IF route.callback \notin DefinedCallbacks
    THEN Some(RestError(500, "rest_invalid_handler"))
    ELSE IF \E a \in route.required : ~IsSome(params[a])
    THEN Some(RestError(400, "rest_missing_callback_param"))
    ELSE IF "email" \in route.required /\ ~IsEmail(Val(params.email))
    THEN Some(RestError(400, "rest_invalid_param"))
    ELSE None

\* sanitize_params: first_name goes through its sanitize_callback.
SanitizeParams(route, params) ==
    IF "first_name" \in route.required /\ IsSome(params.first_name)
    THEN [params EXCEPT !.first_name = Some(SanitizeTextField(Val(@)))]
    ELSE params

\* ---- stored API keys: one active row and one deactivated row
ApiKeyRows ==
    { [id |-> 1, api_key |-> "key-live", is_active |-> 1],
      [id |-> 2, api_key |-> "key-off", is_active |-> 0] }

\* Mutant: the query does not look at is_active.
KeyRowFor_AnyRow(api_key) ==
    { row \in ApiKeyRows : row.api_key = api_key }

\* SELECT * FROM api_keys WHERE api_key = %s AND is_active = 1
KeyRowFor(api_key) ==
    { row \in ApiKeyRows : row.api_key = api_key /\ row.is_active = 1 }

\* ---- contacts (posts of type crm_contacts)
\* Mutant: the duplicate lookup finds nothing.
ExistingContacts_None(posts, email) == <<>>

\* get_posts(meta_query email = $params['email']): the posts whose email meta
\* equals the address as sent.
ExistingContacts(posts, email) == SelectSeq(posts, LAMBDA p : p.email = email)

\* ---- requests
LeadEmails == {None, Some(""), Some("ann@xio"), Some("a@x.io"), Some("b@x.io")}
LeadFirstNames == {None, Some(""), Some(" "), Some("Ann")}
LeadKeys == {None, Some("key-live"), Some("key-off"), Some("key-zzz")}
WebhookUrls == {"", "https://hook.example"}

NoParams == [email |-> None, first_name |-> None]
RestRequests ==
    { [route |-> LeadsRoute, key |-> k, params |-> [email |-> e, first_name |-> f],
       url |-> u] : k \in LeadKeys, e \in LeadEmails, f \in LeadFirstNames, u \in WebhookUrls }
    \cup { [route |-> rt, key |-> k, params |-> NoParams, url |-> "https://hook.example"] :
             rt \in Routes \ {LeadsRoute}, k \in LeadKeys }

LeadIdle ==
    [st |-> "idle", req |-> [route |-> LeadsRoute, key |-> None, params |-> NoParams, url |-> ""],
     at |-> 0,             \* arrival time
     params |-> NoParams,  \* the parameters after sanitize_params
     keyUpdates |-> 0,     \* last_used updates made for this request
     handlerRan |-> FALSE, \* create_contact was called
     existing |-> None,    \* ID found by the duplicate lookup
     inserts |-> 0, updates |-> 0,
     contact_id |-> 0,
     payload |-> None,     \* the payload built for the webhook
     posts |-> 0,          \* webhook POSTs attempted
     posted |-> None,      \* whether that POST returned without error
     scheduled |-> 0,      \* retry tasks scheduled
     hooks |-> 0,          \* enterprise_crm_contact_created fired
     reply |-> None,
     \* the stores as the request found them
     contactsBefore |-> <<>>, lastUsedBefore |-> <<>>, cronBefore |-> <<>>]

Answered(l, response) == [l EXCEPT !.st = "done", !.reply = Some(response)]

\* A request arrives and is matched to its route; the plugin object is built
\* (reading the webhook URL option) and the server checks the callback and the
\* arguments. Requests are handled one after another.
RestRequest(req) ==
    /\ lead.st \in {"idle", "done"}
    /\ nLead < MaxLeadReq
    /\ nLead' = nLead + 1
    /\ now' = now + 1
    /\ LET l == [LeadIdle EXCEPT !.req = req, !.at = now + 1, !.contactsBefore = crm_contacts,
                                !.lastUsedBefore = lastUsed, !.cronBefore = cron]
           early == BeforeCallbacks(req.route, req.params)
       IN lead' = IF IsSome(early)
                  THEN Answered(l, Val(early))
                  ELSE [l EXCEPT !.st = "permission",
                                 !.params = SanitizeParams(req.route, req.params)]
    /\ UNCHANGED <<crm_contacts, lastUsed, cron, aiVars, dashVars, wpVars, coVars, moreVars>>

\* verify_api_key, the permission callback.
VerifyApiKey ==
    /\ lead.st = "permission"
    /\ IF ~IsSome(lead.req.key) \/ Val(lead.req.key) = ""
       THEN /\ lead' = Answered(lead, RestError(401, "missing_api_key"))
            /\ UNCHANGED lastUsed
       ELSE LET rows == KeyRowFor(Val(lead.req.key))
            IN IF rows = {}
               THEN /\ lead' = Answered(lead, RestError(401, "invalid_api_key"))
                    /\ UNCHANGED lastUsed
               ELSE LET key_data == CHOOSE row \in rows : TRUE
                    IN /\ lastUsed' = [lastUsed EXCEPT ![key_data.id] = now]
                       /\ lead' = [lead EXCEPT !.st = "callback", !.keyUpdates = @ + 1]
    /\ UNCHANGED <<nLead, now, crm_contacts, cron, aiVars, dashVars, wpVars, coVars, moreVars>>

\* Mutant: create_contact without its own check of the required fields.
CreateContactBegins_NoEmptyCheck ==
    /\ lead.st = "callback"
    /\ lead.req.route.callback = "create_contact"
    /\ LET existing == ExistingContacts(crm_contacts, Val(lead.params.email))
       IN lead' = [lead EXCEPT !.st = "write", !.handlerRan = TRUE,
                               !.existing = IF existing # <<>>
                                            THEN Some(existing[1].ID) ELSE None]
    /\ UNCHANGED <<nLead, now, crm_contacts, lastUsed, cron, aiVars, dashVars, wpVars, coVars, moreVars>>

\* create_contact up to the duplicate lookup: the check of the required
\* fields, then get_posts by email.
CreateContactBegins ==
    /\ lead.st = "callback"
    /\ lead.req.route.callback = "create_contact"
    /\ IF Empty(lead.params.email) \/ Empty(lead.params.first_name)
       THEN lead' = [Answered(lead, RestError(400, "missing_required_fields"))
                        EXCEPT !.handlerRan = TRUE]
       ELSE LET existing == ExistingContacts(crm_contacts, Val(lead.params.email))
            IN lead' = [lead EXCEPT !.st = "write", !.handlerRan = TRUE,
                                    !.existing = IF existing # <<>>
                                                 THEN Some(existing[1].ID) ELSE None]
    /\ UNCHANGED <<nLead, now, crm_contacts, lastUsed, cron, aiVars, dashVars, wpVars, coVars, moreVars>>

\* The record is written: wp_update_post on the contact found, or
\* wp_insert_post of a new one. Either can fail; a failed insert returns 0, and
\* the result of the update is not looked at.
CreateContactWrites(ok) ==
    /\ lead.st = "write"
    /\ IF IsSome(lead.existing)
       THEN /\ crm_contacts' = IF ok
                           THEN [i \in 1..Len(crm_contacts) |->
                                   IF crm_contacts[i].ID = Val(lead.existing)
                                   THEN [crm_contacts[i] EXCEPT !.post_modified = now]
                                   ELSE crm_contacts[i]]
                           ELSE crm_contacts
            /\ lead' = [lead EXCEPT !.st = "webhook", !.contact_id = Val(lead.existing),
                                    !.updates = @ + (IF ok THEN 1 ELSE 0)]
       ELSE /\ crm_contacts' = IF ok
                           THEN Append(crm_contacts,
                                       [ID |-> Len(crm_contacts) + 1,
                                        post_title |-> Val(lead.params.email),
                                        email |-> SanitizeEmail(Val(lead.params.email)),
                                        first_name |-> SanitizeTextField(Val(lead.params.first_name)),
                                        created_at |-> now,
                                        post_modified |-> now])
                           ELSE crm_contacts
            /\ lead' = [lead EXCEPT !.st = "webhook",
                                    !.contact_id = IF ok THEN Len(crm_contacts) + 1 ELSE 0,
                                    !.inserts = @ + (IF ok THEN 1 ELSE 0)]
    /\ UNCHANGED <<nLead, now, lastUsed, cron, aiVars, dashVars, wpVars, coVars, moreVars>>

\* The payload trigger_pipedream_webhook builds.
WebhookPayload(event, contact_id, params, time) ==
    [event |-> event, data |-> [contact_id |-> contact_id, data |-> params],
     timestamp |-> time, source |-> "wordpress"]

\* wp_schedule_single_event(time() + 300, 'enterprise_crm_retry_webhook', array($payload))
RetryTask(payload, time) ==
    [timestamp |-> time + RetryDelaySeconds, hook |-> "enterprise_crm_retry_webhook",
     args |-> <<payload>>]

\* Mutant: the retry is scheduled whether or not the POST failed.
RetryTasksFor_Always(payload, posted, time) == <<RetryTask(payload, time)>>

\* if (is_wp_error($response)) wp_schedule_single_event(...)
RetryTasksFor(payload, posted, time) ==
    IF posted THEN <<>> ELSE <<RetryTask(payload, time)>>

\* Mutant: a webhook that failed turns the reply into an error.
LeadReply_FailsOnWebhookError(contact_id, webhookError) ==
    IF webhookError
    THEN RestError(500, "contact_creation_failed")
    ELSE RestOk(201, contact_id, TRUE)

\* new WP_REST_Response(array('success' => true, 'contact_id' => ...,
\* 'webhook_triggered' => !is_wp_error($webhook_response)), 201)
LeadReply(contact_id, webhookError) == RestOk(201, contact_id, ~webhookError)

\* trigger_pipedream_webhook, the contact_created hook and the reply. Without a
\* webhook URL nothing is posted and nothing scheduled; otherwise the
\* non-blocking POST either is handed off (posted) or returns an error.
TriggerPipedreamWebhook(posted) ==
    /\ lead.st = "webhook"
    /\ IF lead.req.url = ""
       THEN /\ lead' = [Answered(lead, LeadReply(lead.contact_id, TRUE))
                          EXCEPT !.hooks = @ + 1]
            /\ UNCHANGED cron
       ELSE LET payload == WebhookPayload("lead_created", lead.contact_id, lead.params, now)
                tasks == RetryTasksFor(payload, posted, now)
            IN /\ cron' = cron \o tasks
               /\ lead' = [Answered(lead, LeadReply(lead.contact_id, ~posted))
                             EXCEPT !.payload = Some(payload), !.posts = @ + 1,
                                    !.posted = Some(posted),
                                    !.scheduled = @ + Len(tasks), !.hooks = @ + 1]
    /\ UNCHANGED <<nLead, now, crm_contacts, lastUsed, aiVars, dashVars, wpVars, coVars, moreVars>>

LeadInit ==
    /\ lead = LeadIdle
    /\ nLead = 0
    /\ now = 0
    /\ crm_contacts = <<>>
    /\ lastUsed = [id \in {row.id : row \in ApiKeyRows} |-> 0]
    /\ cron = <<>>

LeadNext ==
    \/ \E req \in RestRequests : RestRequest(req)
    \/ VerifyApiKey
    \/ CreateContactBegins
    \/ \E ok \in BOOLEAN : CreateContactWrites(ok)
    \/ \E posted \in BOOLEAN : TriggerPipedreamWebhook(posted)

\* ======================================================================
\* Lead ingestion plugin: lead requests handled at the same time, and cron
\* ======================================================================
\* Each request is its own PHP process running create_contact; the processes
\* share the posts table and the cron table and interleave between their
\* database calls. The requests taken here are those the server admits: the
\* route is /leads, the arguments are valid and the API key is active.

ConcReqIds == 1..MaxConcReq

ConcParams ==
    { [email |-> Some(e), first_name |-> Some("Ann")] : e \in {"a@x.io", "b@x.io"} }

ConcIdle ==
    [st |-> "idle", params |-> NoParams,
     existing |-> None,   \* ID found by the duplicate lookup
     contact_id |-> 0,
     inserts |-> 0, updates |-> 0,
     posted |-> None,     \* whether the webhook POST returned without error
     reply |-> None]

\* create_contact is called for request r.
ConcRequest(r, params) ==
    /\ reqs[r].st = "idle"
    /\ reqs' = [reqs EXCEPT ![r] = [ConcIdle EXCEPT !.st = "lookup", !.params = params]]
    /\ UNCHANGED <<cronRan, reposted, leadVars, aiVars, dashVars, wpVars, coVars, funnelVars>>

\* get_posts by email: the duplicate lookup of request r.
ConcLookup(r) ==
    /\ reqs[r].st = "lookup"
    /\ LET existing == ExistingContacts(crm_contacts, Val(reqs[r].params.email))
       IN reqs' = [reqs EXCEPT ![r].st = "write",
                               ![r].existing = IF existing # <<>>
                                               THEN Some(existing[1].ID) ELSE None]
    /\ UNCHANGED crm_contacts
    /\ UNCHANGED <<cronRan, reposted, lead, nLead, now, lastUsed, cron,
                   aiVars, dashVars, wpVars, coVars, funnelVars>>

\* wp_update_post on the contact the lookup found, or wp_insert_post of a new
\* one, by request r. A failed insert returns 0.
ConcWrite(r, ok) ==
    /\ reqs[r].st = "write"
    /\ IF IsSome(reqs[r].existing)
       THEN /\ crm_contacts' = IF ok
                           THEN [i \in 1..Len(crm_contacts) |->
                                   IF crm_contacts[i].ID = Val(reqs[r].existing)
                                   THEN [crm_contacts[i] EXCEPT !.post_modified = now]
                                   ELSE crm_contacts[i]]
                           ELSE crm_contacts
            /\ reqs' = [reqs EXCEPT ![r].st = "webhook",
                                    ![r].contact_id = Val(reqs[r].existing),
                                    ![r].updates = IF ok THEN 1 ELSE 0]
       ELSE /\ crm_contacts' = IF ok
                           THEN Append(crm_contacts,
                                       [ID |-> Len(crm_contacts) + 1,
                                        post_title |-> Val(reqs[r].params.email),
                                        email |-> SanitizeEmail(Val(reqs[r].params.email)),
                                        first_name |-> SanitizeTextField(Val(reqs[r].params.first_name)),
                                        created_at |-> now,
                                        post_modified |-> now])
                           ELSE crm_contacts
            /\ reqs' = [reqs EXCEPT ![r].st = "webhook",
                                    ![r].contact_id = IF ok THEN Len(crm_contacts) + 1 ELSE 0,
                                    ![r].inserts = IF ok THEN 1 ELSE 0]
    /\ UNCHANGED <<cronRan, reposted, lead, nLead, now, lastUsed, cron,
                   aiVars, dashVars, wpVars, coVars, funnelVars>>

\* trigger_pipedream_webhook and the reply of request r, with the webhook URL
\* configured: the POST is handed off (posted) or returns an error, and then a
\* retry is scheduled.
ConcWebhook(r, posted) ==
    /\ reqs[r].st = "webhook"
    /\ LET payload == WebhookPayload("lead_created", reqs[r].contact_id, reqs[r].params, now)
       IN /\ cron' = cron \o RetryTasksFor(payload, posted, now)
          /\ reqs' = [reqs EXCEPT ![r].st = "done", ![r].posted = Some(posted),
                                  ![r].reply = Some(LeadReply(reqs[r].contact_id, ~posted))]
    /\ UNCHANGED <<cronRan, reposted, lead, nLead, now, crm_contacts, lastUsed,
                   aiVars, dashVars, wpVars, coVars, funnelVars>>

\* The hooks for which the plugin registers a callback with add_action.
HookedActions ==
    {"init", "wp_enqueue_scripts", "rest_api_init", "admin_menu",
     "wp_ajax_nopriv_enterprise_crm_webhook", "wp_ajax_enterprise_crm_webhook",
     "admin_notices", "enterprise_crm_contact_created",
     "wp_ajax_test_mailrelay_connection"}

\* What running a scheduled event posts to the webhook URL: cron fires the
\* event's hook with its arguments, and only a callback registered for that
\* hook could post the payload again.
Reposts(task) == IF task.hook \in HookedActions THEN <<task.args[1]>> ELSE <<>>

\* Five minutes pass.
TimePasses ==
    /\ now < MaxCronWaits * RetryDelaySeconds
    /\ now' = now + RetryDelaySeconds
    /\ UNCHANGED <<concVars, lead, nLead, crm_contacts, lastUsed, cron,
                   aiVars, dashVars, wpVars, coVars, funnelVars>>

\* wp-cron runs the first scheduled event that is due: the event is
\* unscheduled and its hook is fired with its arguments.
CronRun ==
    /\ \E k \in 1..Len(cron) : cron[k].timestamp <= now
    /\ LET k == CHOOSE k \in 1..Len(cron) :
                  /\ cron[k].timestamp <= now
                  /\ \A j \in 1..(k - 1) : cron[j].timestamp > now
       IN /\ cron' = SubSeq(cron, 1, k - 1) \o SubSeq(cron, k + 1, Len(cron))
          /\ cronRan' = Append(cronRan, cron[k])
          /\ reposted' = reposted \o Reposts(cron[k])
    /\ UNCHANGED <<reqs, lead, nLead, now, crm_contacts, lastUsed,
                   aiVars, dashVars, wpVars, coVars, funnelVars>>

ConcInit ==
    /\ reqs = [r \in ConcReqIds |-> ConcIdle]
    /\ cronRan = <<>>
    /\ reposted = <<>>

ConcNext ==
    \/ \E r \in ConcReqIds, params \in ConcParams : ConcRequest(r, params)
    \/ \E r \in ConcReqIds : ConcLookup(r)
    \/ \E r \in ConcReqIds, ok \in BOOLEAN : ConcWrite(r, ok)
    \/ \E r \in ConcReqIds, posted \in BOOLEAN : ConcWebhook(r, posted)
    \/ TimePasses
    \/ CronRun

\* ======================================================================
\* Funnel step advancement workflow (funnel-automation-v1)
\* ======================================================================
\* The workflow runs on a schedule; one run at a time. completeJourney,
\* logError and sendAdminAlert are called by the run but are not part of the
\* source: they are taken to do what their names and the calls say.

RunPeriodMinutes == 5
BatchLimit == 50
DefaultDelayMinutes == 1440

JourneyIds == 1..NJourneys

FunnelStep(order, type, delay_type, delay_value) ==
    [step_order |-> order, step_type |-> type,
     configuration |-> [delay_type |-> delay_type, delay_value |-> delay_value]]

\* funnel_steps of the funnels: one with three steps, one whose step_order
\* has a gap, one whose step has a type executeStep does not know, one
\* without steps.
FunnelSteps ==
    [welcome |-> << FunnelStep(1, "email", "immediate", 0),
                    FunnelStep(2, "delay", "minutes", 5),
                    FunnelStep(3, "email", "", 0) >>,
     gap |-> << FunnelStep(1, "email", "minutes", 10),
                FunnelStep(3, "fax", "immediate", 0) >>,
     legacy |-> << FunnelStep(1, "fax", "immediate", 0) >>,
     none |-> << >>]

\* A journey as it is created: active, due, before its first step.
JourneyInit(j) ==
    [id |-> j,
     funnel |-> IF j = 1 THEN "welcome" ELSE IF j = 2 THEN "gap"
                ELSE IF j = 3 THEN "legacy" ELSE "none",
     status |-> "active", current_step |-> 0, next_step_at |-> 0]

\* .eq('status', 'active').lte('next_step_at', now).limit(50): the due active
\* journeys, at most 50 of them, each as the query read it.
JourneyQuery(js, time) ==
    LET due == SelectSeq(js, LAMBDA row : row.status = "active" /\ row.next_step_at <= time)
    IN Slice0(due, BatchLimit)

\* journey.funnel_steps.find(step => step.step_order === journey.current_step + 1)
FindNextStep(journey) ==
    LET hits == SelectSeq(FunnelSteps[journey.funnel],
                          LAMBDA step : step.step_order = journey.current_step + 1)
    IN IF hits = << >> THEN None ELSE Some(hits[1])

\* executeStep: an email step succeeds or throws, a delay step does nothing,
\* an unknown step type throws.
ExecuteStepOutcomes(step) ==
    IF step.step_type = "email" THEN {"ok", "failed"}
    ELSE IF step.step_type = "delay" THEN {"ok"}
    ELSE {"failed"}

\* calculateNextStepTime, in minutes
NextStepTime(step, time) ==
    IF step.configuration.delay_type = "immediate" THEN time
    ELSE IF step.configuration.delay_type = "minutes"
    THEN time + step.configuration.delay_value
    ELSE time + DefaultDelayMinutes

RunIdle ==
    [st |-> "idle", batch |-> << >>, i |-> 0,
     processed |-> 0,   \* processedCount
     errors |-> 0,      \* errorCount
     log |-> << >>,     \* what logError was given
     alerts |-> 0,      \* sendAdminAlert calls
     result |-> None]

\* Mutant: a failure is logged but not counted.
Counted_ErrorsDropped(r, failed) ==
    IF failed THEN r ELSE [r EXCEPT !.processed = @ + 1]

\* processedCount++ / errorCount++
Counted(r, failed) ==
    IF failed THEN [r EXCEPT !.errors = @ + 1] ELSE [r EXCEPT !.processed = @ + 1]

\* completeJourney(journey): the journey is marked as finished.
CompleteJourney(js, journey) == [js EXCEPT ![journey.id].status = "completed"]

\* sendAdminAlert(...)
Alerted(r) == [r EXCEPT !.alerts = @ + 1]

\* logError('journey_step_failed', {journey_id, ..., step})
Logged(r, journey) ==
    [r EXCEPT !.log = Append(@, [journey_id |-> journey.id, step |-> journey.current_step + 1])]

\* The loop goes on to the next journey, or ends and the run returns its counts.
Advance(r) ==
    IF r.i = Len(r.batch)
    THEN [r EXCEPT !.st = "done", !.i = @ + 1,
                   !.result = Some([success |-> TRUE, processed |-> r.processed,
                                    errors |-> r.errors])]
    ELSE [r EXCEPT !.i = @ + 1]

\* Contacts are put into funnels (triggerFunnelSequence of the lead workflow):
\* the table, empty until then, gets its journeys.
JourneysEnrolled ==
    /\ journeys = << >>
    /\ wfRun.st = "idle"
    /\ journeys' = [j \in JourneyIds |-> JourneyInit(j)]
    /\ executed' = [j \in JourneyIds |-> << >>]
    /\ UNCHANGED <<wfRun, wfNow, aiVars, dashVars, wpVars, leadVars, coVars, concVars>>

\* A scheduled run starts and queries the due journeys. A failed query throws:
\* the admin is alerted and the run fails. An empty result ends the run.
RunStarts(fetchOk) ==
    /\ wfRun.st \in {"idle", "done", "threw"}
    /\ wfNow < MaxRuns * RunPeriodMinutes
    /\ wfNow' = wfNow + RunPeriodMinutes
    /\ LET batch == JourneyQuery(journeys, wfNow + RunPeriodMinutes)
       IN wfRun' = IF ~fetchOk
                   THEN Alerted([RunIdle EXCEPT !.st = "threw"])
                   ELSE IF batch = << >>
                   THEN [RunIdle EXCEPT !.st = "done",
                            !.result = Some([processed |-> 0, message |-> "No journeys ready"])]
                   ELSE [RunIdle EXCEPT !.st = "loop", !.batch = batch, !.i = 1]
    /\ UNCHANGED <<journeys, executed, aiVars, dashVars, wpVars, leadVars, coVars, concVars>>

\* One iteration of the loop over the batch. outcome: how executeStep ended;
\* stored: whether the update of contact_journeys was stored (its result is
\* not looked at). Where a branch makes no use of an input, the input is fixed.
ProcessJourney(outcome, stored) ==
    /\ wfRun.st = "loop"
    /\ LET journey == wfRun.batch[wfRun.i]
           nextStep == FindNextStep(journey)
       IN IF ~IsSome(nextStep)
          THEN /\ outcome = "ok" /\ stored
               /\ journeys' = CompleteJourney(journeys, journey)
               /\ UNCHANGED executed
               /\ wfRun' = Advance(Counted(wfRun, FALSE))
          ELSE /\ outcome \in ExecuteStepOutcomes(Val(nextStep))
               /\ IF outcome = "failed"
                  THEN /\ stored
                       /\ UNCHANGED <<journeys, executed>>
                       /\ wfRun' = Advance(Logged(Counted(wfRun, TRUE), journey))
                  ELSE /\ executed' = [executed EXCEPT ![journey.id] =
                                          Append(@, Val(nextStep).step_order)]
                       /\ journeys' = IF stored
                                      THEN [journeys EXCEPT
                                              ![journey.id].current_step = journey.current_step + 1,
                                              ![journey.id].next_step_at =
                                                  NextStepTime(Val(nextStep), wfNow)]
                                      ELSE journeys
                       /\ wfRun' = Advance(Counted(wfRun, FALSE))
    /\ UNCHANGED <<wfNow, aiVars, dashVars, wpVars, leadVars, coVars, concVars>>

FunnelInit ==
    /\ journeys = << >>
    /\ executed = << >>
    /\ wfRun = RunIdle
    /\ wfNow = 0

FunnelNext ==
    \/ JourneysEnrolled
    \/ \E fetchOk \in BOOLEAN : RunStarts(fetchOk)
    \/ \E outcome \in {"ok", "failed"}, stored \in BOOLEAN : ProcessJourney(outcome, stored)

\* ======================================================================
\* Checkout handler
\* ======================================================================

CentsPerDollar == 100

\* The rows of the `bots` table; any other bot_id has no row.
BotRows ==
    [b \in {"bot10", "bot0", "bot25"} |->
        [title |-> b, description |-> "d",
         price |-> IF b = "bot10" THEN 10 ELSE IF b = "bot0" THEN 0 ELSE 25]]

\* supabase.from('bots').select('*').eq('id', bot_id).single(): { data: bot }
BotLookup(bot_id) ==
    IF bot_id \in DOMAIN BotRows THEN Some(BotRows[bot_id]) ELSE None

\* Mutant: the price is passed on in dollars.
UnitAmount_NoConversion(bot) == bot.price

\* unit_amount: bot.price * 100
UnitAmount(bot) == bot.price * CentsPerDollar

\* Mutant: the two metadata fields are exchanged.
SessionParams_MetadataSwapped(bot, body) ==
    [name |-> bot.title, description |-> bot.description, currency |-> "usd",
     unit_amount |-> bot.price * CentsPerDollar, quantity |-> 1, mode |-> "payment",
     metadata |-> [bot_id |-> body.user_id, user_id |-> body.bot_id]]

\* The argument of stripe.checkout.sessions.create
SessionParams(bot, body) ==
    [name |-> bot.title, description |-> bot.description, currency |-> "usd",
     unit_amount |-> UnitAmount(bot), quantity |-> 1, mode |-> "payment",
     metadata |-> [bot_id |-> body.bot_id, user_id |-> body.user_id]]

\* res.json({ id: session.id })
CheckoutReply(session) == [id |-> session.id]

CoBodies == [bot_id : {"bot10", "bot0", "bot25", "nobot"}, user_id : {"u1", "u2"}]

CoIdle ==
    [st |-> "idle", body |-> [bot_id |-> "", user_id |-> ""], lookups |-> 0,
     creates |-> 0, params |-> None, replies |-> <<>>]

CoReqIds == 1..MaxCoReq

\* The request arrives: the handler reads req.body and awaits the bot lookup.
CheckoutPost(r, body) ==
    /\ co[r].st = "idle"
    /\ co' = [co EXCEPT ![r] = [@ EXCEPT !.st = "lookup", !.body = body,
                                  !.lookups = @ + 1]]
    /\ UNCHANGED <<sessions, aiVars, dashVars, wpVars, leadVars, moreVars>>

\* Mutant: the fields of the bot are read null-safely (bot?.title), so a
\* missing bot still leads to a sessions.create call, with a price of 0.
LookupReturns_NullSafe(r) ==
    /\ co[r].st = "lookup"
    /\ LET bot == BotLookup(co[r].body.bot_id)
           read == IF IsSome(bot) THEN Val(bot)
                   ELSE [title |-> "", description |-> "", price |-> 0]
       IN co' = [co EXCEPT ![r] = [@ EXCEPT !.st = "creating", !.creates = @ + 1,
                       !.params = Some(SessionParams(read, co[r].body))]]
    /\ UNCHANGED <<sessions, aiVars, dashVars, wpVars, leadVars, moreVars>>

\* The lookup returns. With no row, `bot` is null and reading bot.title throws:
\* the handler ends there. With a row, sessions.create is called and awaited.
LookupReturns(r) ==
    /\ co[r].st = "lookup"
    /\ LET bot == BotLookup(co[r].body.bot_id)
       IN IF IsSome(bot)
          THEN co' = [co EXCEPT ![r] = [@ EXCEPT !.st = "creating", !.creates = @ + 1,
                          !.params = Some(SessionParams(Val(bot), co[r].body))]]
          ELSE co' = [co EXCEPT ![r] = [@ EXCEPT !.st = "threw"]]
    /\ UNCHANGED <<sessions, aiVars, dashVars, wpVars, leadVars, moreVars>>

\* The payment service creates the session; the handler replies with its id.
SessionCreated(r) ==
    /\ co[r].st = "creating"
    /\ LET session == [id |-> Len(sessions) + 1, params |-> Val(co[r].params), by |-> r]
       IN /\ sessions' = Append(sessions, session)
          /\ co' = [co EXCEPT ![r] = [@ EXCEPT !.st = "done",
                          !.replies = Append(@, CheckoutReply(session))]]
    /\ UNCHANGED <<aiVars, dashVars, wpVars, leadVars, moreVars>>

\* The payment service rejects the call: the await throws, the handler ends.
SessionFails(r) ==
    /\ co[r].st = "creating"
    /\ co' = [co EXCEPT ![r] = [@ EXCEPT !.st = "threw"]]
    /\ UNCHANGED <<sessions, aiVars, dashVars, wpVars, leadVars, moreVars>>

CoInit ==
    /\ co = [r \in CoReqIds |-> CoIdle]
    /\ sessions = <<>>

CoNext ==
    \/ \E r \in CoReqIds, body \in CoBodies : CheckoutPost(r, body)
    \/ \E r \in CoReqIds : LookupReturns(r)
    \/ \E r \in CoReqIds : SessionCreated(r)
    \/ \E r \in CoReqIds : SessionFails(r)

\* ======================================================================
\* Specifications
\* ======================================================================

Init == AIInit /\ DashInit /\ WpInit /\ LeadInit /\ CoInit /\ ConcInit /\ FunnelInit

Next == AINext \/ DashNext \/ WpNext \/ LeadNext \/ CoNext \/ ConcNext \/ FunnelNext

\* The programs share nothing: each is checked on its own.
SpecAI == Init /\ [][AINext]_vars
SpecDash == Init /\ [][DashNext]_vars
SpecWp == Init /\ [][WpNext]_vars
SpecLead == Init /\ [][LeadNext]_vars
SpecLeadConc == Init /\ [][ConcNext]_vars
SpecFunnel == Init /\ [][FunnelNext]_vars
SpecCheckout == Init /\ [][CoNext]_vars
Spec == Init /\ [][Next]_vars

\* ======================================================================
\* Properties of the AI router (checked under SpecAI)
\* ======================================================================

\* s with every ASCII capital replaced by its small letter
RECURSIVE LowerCased(_)
LowerCased(s) ==
    IF Len(s) = 0 THEN ""
    ELSE IF Len(s) = 1 THEN FoldChar(s)
    ELSE LET h == Len(s) \div 2
         IN LowerCased(SubSeq(s, 1, h)) \o LowerCased(SubSeq(s, h + 1, Len(s)))

\* w occurs somewhere in s
Contains(s, w) == \E i \in 1..(Len(s) - Len(w) + 1) : SubSeq(s, i, i + Len(w) - 1) = w

\* The input holds one of the routing keywords, in any case, anywhere.
HasKeyword(s) ==
    LET l == LowerCased(s)
    IN \/ Contains(l, "strategy") \/ Contains(l, "plan") \/ Contains(l, "sequence")
       \/ Contains(l, "long-form") \/ Contains(l, "campaign")

\* HasKeyword and the length over the request inputs, evaluated once.
HasKeywordOf == [s \in AIInputs |-> HasKeyword(s)]
LenOf == [s \in AIInputs |-> Len(s)]

AIFinished(r) == ai[r].st = "done" /\ IsSome(ai[r].body.input)

\* The one HTTP reply of a finished request is 200 {response: text}.
AIRepliedWith(r, text) ==
    ai[r].replies = << [status |-> 200, field |-> "response", text |-> text] >>

\* C1: a request whose input is shorter than 280 characters and holds none of
\* the keywords calls the fast backend (askQwen) exactly once and the deep one
\* not at all, and is answered "[Qwen] " followed by the fast backend's reply.
C1_FastPath ==
    \A r \in AIReqIds :
        (AIFinished(r) /\ LenOf[Val(ai[r].body.input)] < 280
                       /\ ~HasKeywordOf[Val(ai[r].body.input)])
        => /\ ai[r].qwenCalls = 1
           /\ ai[r].stratCalls = 0
           /\ Len(ai[r].posts) = 1 /\ ai[r].posts[1].model = "qwen:0.5b"
           /\ IsSome(ai[r].backend) /\ ~Val(ai[r].backend).threw
           /\ AIRepliedWith(r, "[Qwen] " \o Val(ai[r].backend).value)

\* A 279-character input without keyword went down the fast path and was answered.
C1_Witness ==
    \E r \in AIReqIds :
        /\ AIFinished(r)
        /\ LenOf[Val(ai[r].body.input)] = 279
        /\ ~HasKeywordOf[Val(ai[r].body.input)]
        /\ AIRepliedWith(r, "[Qwen] Bonjour")

\* C2: a request whose input has 280 characters or more, or holds a keyword in
\* any case anywhere, calls the deep backend (askStrategist) exactly once and
\* the fast one not at all, and is answered "[Strategist] " followed by the
\* deep backend's reply.
C2_DeepPath ==
    \A r \in AIReqIds :
        (AIFinished(r) /\ (LenOf[Val(ai[r].body.input)] >= 280
                           \/ HasKeywordOf[Val(ai[r].body.input)]))
        => /\ ai[r].stratCalls = 1
           /\ ai[r].qwenCalls = 0
           /\ Len(ai[r].posts) = 1 /\ ai[r].posts[1].model = "mixtral"
           /\ IsSome(ai[r].backend) /\ ~Val(ai[r].backend).threw
           /\ AIRepliedWith(r, "[Strategist] " \o Val(ai[r].backend).value)

\* Two requests were answered by the deep backend: one for its length alone
\* (280 characters, no keyword), one for a keyword in capitals in a short input.
C2_Witness ==
    \E r, q \in AIReqIds :
        /\ AIFinished(r) /\ AIFinished(q)
        /\ LenOf[Val(ai[r].body.input)] = 280 /\ ~HasKeywordOf[Val(ai[r].body.input)]
        /\ Val(ai[q].body.input) = "CAMPAIGN"
        /\ AIRepliedWith(r, "[Strategist] Bonjour")
        /\ AIRepliedWith(q, "[Strategist] Bonjour")

\* C3: when the upstream call of the chosen backend fails, the backend returns
\* its fixed fallback string, routeAIRequest resolves with the backend's tag
\* followed by that string, and the caller gets a normal reply, not an error.
C3_FailureSwallowed ==
    \A r \in AIReqIds :
        (ai[r].st = "done" /\ IsSome(ai[r].outcome) /\ Val(ai[r].outcome).kind = "error")
        => /\ ~Val(ai[r].settled).threw
           /\ ai[r].qwenCalls = 1
                => /\ Val(ai[r].backend) = Resolved("Qwen unavailable.")
                   /\ AIRepliedWith(r, "[Qwen] Qwen unavailable.")
           /\ ai[r].stratCalls = 1
                => /\ Val(ai[r].backend) = Resolved("Strategist unavailable.")
                   /\ AIRepliedWith(r, "[Strategist] Strategist unavailable.")
           /\ ai[r].qwenCalls + ai[r].stratCalls = 1

\* The upstream call failed for a fast request and for a deep request.
C3_Witness ==
    \E r, q \in AIReqIds :
        /\ ai[r].st = "done" /\ ai[q].st = "done"
        /\ ai[r].outcome = Some([kind |-> "error", response |-> ""])
        /\ ai[q].outcome = Some([kind |-> "error", response |-> ""])
        /\ ai[r].qwenCalls = 1 /\ ai[q].stratCalls = 1
        /\ AIRepliedWith(r, "[Qwen] Qwen unavailable.")
        /\ AIRepliedWith(q, "[Strategist] Strategist unavailable.")

\* C4: POST /api/ai sends exactly one reply per request once routeAIRequest has
\* settled and none before: 200 {response: string} when it resolved, 500
\* {error: 'AI routing failed'} exactly when it threw.
C4_OneReply ==
    \A r \in AIReqIds :
        /\ ~IsSome(ai[r].settled) => ai[r].replies = << >>
        /\ IsSome(ai[r].settled) =>
              /\ Len(ai[r].replies) = 1
              /\ Val(ai[r].settled).threw <=>
                    ai[r].replies[1] =
                        [status |-> 500, field |-> "error", text |-> "AI routing failed"]
              /\ ~Val(ai[r].settled).threw <=>
                    ai[r].replies[1] =
                        [status |-> 200, field |-> "response", text |-> Val(ai[r].settled).value]

\* One request was answered 500 after routeAIRequest threw (no input in the
\* body), another was answered 200 with the routed reply.
C4_Witness ==
    \E r, q \in AIReqIds :
        /\ IsSome(ai[r].settled) /\ Val(ai[r].settled).threw
        /\ ai[r].replies[1].status = 500
        /\ IsSome(ai[q].settled) /\ ~Val(ai[q].settled).threw
        /\ ai[q].replies[1].status = 200

\* The request has been handed to routeAIRequest with an input.
AIRouted(r) == ai[r].st # "idle" /\ IsSome(ai[r].body.input)

\* C19 as stated: every request, whatever its body, causes exactly one upstream
\* generate call.
C19_ExactlyOneCallEach ==
    \A r \in AIReqIds :
        ai[r].st # "idle" => ai[r].qwenCalls + ai[r].stratCalls = 1

\* C19: the router is stateless and single-shot. Every request that carries an
\* input causes exactly one upstream generate call, whether that call succeeds
\* or fails: a failure is neither retried nor sent to the other backend, and
\* the reply carries the tag of the backend that was called. Two requests
\* with the same input are sent to the same backend, whatever happened to
\* other requests before.
C19_StatelessSingleShot ==
    /\ \A r \in AIReqIds :
          AIRouted(r) =>
             /\ Len(ai[r].posts) = 1
             /\ ai[r].qwenCalls + ai[r].stratCalls = 1
             /\ ai[r].st = "done" =>
                   LET tag == IF ai[r].posts[1].model = "qwen:0.5b"
                              THEN "[Qwen] " ELSE "[Strategist] "
                   IN /\ Len(ai[r].replies) = 1
                      /\ SubSeq(ai[r].replies[1].text, 1, Len(tag)) = tag
    /\ \A r, q \in AIReqIds :
          (AIRouted(r) /\ AIRouted(q) /\ ai[r].body.input = ai[q].body.input)
             => ai[r].posts[1].model = ai[q].posts[1].model

\* The fast backend failed for one request, and a later request with the same
\* input was again sent to the fast backend, once.
C19_Witness ==
    \E r, q \in AIReqIds :
        /\ r # q
        /\ ai[r].st = "done" /\ ai[r].qwenCalls = 1
        /\ ai[r].outcome = Some([kind |-> "error", response |-> ""])
        /\ Len(ai[r].posts) = 1
        /\ ai[q].st = "qwen" /\ ai[q].body.input = ai[r].body.input
        /\ Len(ai[q].posts) = 1

\* ======================================================================
\* Properties of the dashboard's change-feed reducer (checked under SpecDash)
\* ======================================================================

\* The step just taken folded in a change event of type t.
EventApplied(t) == IsSome(applied) /\ Val(applied).payload.eventType = t

\* contacts before and after that event
Before == Val(applied).before.contacts
After == state.contacts

\* C5: an INSERT event puts payload.new at the head of contacts, followed by
\* the previous contacts in their previous order, cut so that the list has at
\* most 100 entries (the entries at the tail are the ones dropped).
C5_Insert ==
    EventApplied("INSERT") =>
        /\ Len(After) = (IF Len(Before) >= 100 THEN 100 ELSE Len(Before) + 1)
        /\ After[1] = Val(Val(applied).payload.new)
        /\ \A i \in 2..Len(After) : After[i] = Before[i - 1]

\* An INSERT arrived with 100 contacts held: the list still has 100, the new
\* record leads, and the last of the previous contacts is gone.
C5_Witness ==
    /\ EventApplied("INSERT")
    /\ Len(Before) = 100
    /\ Len(After) = 100
    /\ After[1] = Val(Val(applied).payload.new)
    /\ After[100] = Before[99]
    /\ \A i \in 1..Len(After) : After[i] # Before[100]

\* C6: a DELETE event removes every contact whose id is payload.old.id and
\* keeps all the others, in their previous relative order; a DELETE for an id
\* that is not in the list leaves contacts as it was.
C6_Delete ==
    EventApplied("DELETE") =>
        LET d == Val(Val(applied).payload.oldId)
            hits == {j \in 1..Len(Before) : Before[j].id = d}
        IN /\ \A i \in 1..Len(After) : After[i].id # d
           /\ Len(After) = Len(Before) - Cardinality(hits)
           /\ \A i \in 1..Len(Before) :
                 i \notin hits =>
                    After[i - Cardinality({j \in hits : j < i})] = Before[i]
           /\ hits = {} => After = Before

\* A DELETE removed two contacts with the same id (a fetched row and an
\* inserted one) and kept another contact.
C6_Witness ==
    /\ EventApplied("DELETE")
    /\ Len(Before) - Len(After) = 2
    /\ Len(After) >= 1

\* C7: an UPDATE event replaces, in place, the contact whose id is
\* payload.new.id by payload.new: the length of the list and the position of
\* every contact stay, and an UPDATE for an id not in the list changes nothing.
C7_Update ==
    EventApplied("UPDATE") =>
        LET new == Val(Val(applied).payload.new)
        IN /\ Len(After) = Len(Before)
           /\ \A i \in 1..Len(Before) :
                 After[i] = (IF Before[i].id = new.id THEN new ELSE Before[i])
           /\ (\A i \in 1..Len(Before) : Before[i].id # new.id) => After = Before

\* An UPDATE replaced the last of 100 contacts and left the first alone.
C7_Witness ==
    /\ EventApplied("UPDATE")
    /\ Len(Before) = 100
    /\ Before[100].id = Val(Val(applied).payload.new).id
    /\ Before[100] # Val(Val(applied).payload.new)
    /\ After[100] = Val(Val(applied).payload.new)
    /\ After[1] = Before[1]

\* C8: an event that is no INSERT, UPDATE or DELETE leaves the whole state
\* unchanged, and an event of any type leaves campaigns, funnels, analytics,
\* loading, error and retryCount unchanged.
C8_Frame ==
    IsSome(applied) =>
        LET b == Val(applied).before
        IN /\ state.campaigns = b.campaigns
           /\ state.funnels = b.funnels
           /\ state.analytics = b.analytics
           /\ state.loading = b.loading
           /\ state.error = b.error
           /\ state.retryCount = b.retryCount
           /\ DOMAIN state = DOMAIN b
           /\ Val(applied).payload.eventType \notin {"INSERT", "UPDATE", "DELETE"}
                 => state = b /\ ui = Val(applied).uiBefore

\* An event of another type arrived while contacts and campaigns were loaded,
\* an error was set and a fetch was in flight.
C8_Witness ==
    /\ IsSome(applied)
    /\ Val(applied).payload.eventType = "TRUNCATE"
    /\ Len(state.contacts) > 0
    /\ state.campaigns # <<>>
    /\ state.retryCount > 0
    /\ IsSome(state.error)
    /\ fetches > 0

\* ======================================================================
\* Properties of fetchData, the error screen and event order (checked under
\* SpecDash)
\* ======================================================================

\* What the state holds for a resource whose request settled as opt: the value
\* when it was fulfilled, the empty value when it was rejected.
StoredOrEmpty(opt) == IF IsSome(opt) THEN Val(opt) ELSE <<>>

\* C14 as stated: whichever of the four requests failed, each failed resource is
\* empty in the state, each fulfilled one is stored, and the error is not set.
C14_SettleAllOfFour ==
    IsSome(fetched) =>
        LET f == Val(fetched)
        IN /\ state.contacts = StoredOrEmpty(f.contacts)
           /\ state.campaigns = StoredOrEmpty(f.results.campaigns)
           /\ state.funnels = StoredOrEmpty(f.results.funnels)
           /\ state.analytics = StoredOrEmpty(f.results.analytics)
           /\ state.error = f.errorBefore

\* C14: settle-all covers the three endpoint requests only. When the contacts
\* query succeeded, its rows are stored, each endpoint that failed defaults to
\* its empty value, each that succeeded is stored, and the error is left as it
\* was. When the contacts query failed, the whole fetchData call fails: the
\* error is set, nothing is stored and nothing is emptied, whatever the three
\* endpoint requests did.
C14_SettleAllOfEndpoints ==
    IsSome(fetched) =>
        LET f == Val(fetched)
        IN IF IsSome(f.contacts)
           THEN /\ state.contacts = Val(f.contacts)
                /\ state.campaigns = StoredOrEmpty(f.results.campaigns)
                /\ state.funnels = StoredOrEmpty(f.results.funnels)
                /\ state.analytics = StoredOrEmpty(f.results.analytics)
                /\ state.error = f.errorBefore
                /\ ~state.loading
           ELSE /\ IsSome(state.error)
                /\ [contacts |-> state.contacts, campaigns |-> state.campaigns,
                    funnels |-> state.funnels, analytics |-> state.analytics]
                       = Val(f.dataBefore)

\* A fetchData call has just settled with the contacts loaded, one endpoint
\* failed and another succeeded, and no error is set.
C14_Witness ==
    /\ IsSome(fetched)
    /\ IsSome(Val(fetched).contacts)
    /\ ~IsSome(Val(fetched).results.campaigns)
    /\ IsSome(Val(fetched).results.funnels)
    /\ Len(state.contacts) = ContactsLimit
    /\ state.campaigns = <<>>
    /\ state.funnels # <<>>
    /\ ~IsSome(state.error)

\* C15: retryCount counts the fetchData calls that failed since the last one
\* that succeeded (a failure adds one, a success resets it to 0), and the error
\* screen is shown only when the error is set and at least three calls have
\* failed since the last success; with fewer the error screen is not shown.
C15_ErrorScreen ==
    /\ state.retryCount = failsSince
    /\ ShowsErrorScreen => (IsSome(state.error) /\ failsSince >= ErrorScreenRetries)
    /\ failsSince < ErrorScreenRetries => ~ShowsErrorScreen

\* The third failure in a row has just happened and the error screen is shown.
C15_Witness ==
    /\ ShowsErrorScreen
    /\ failsSince = ErrorScreenRetries
    /\ IsSome(fetched) /\ ~IsSome(Val(fetched).contacts)

\* C20 as stated: the last event for an id decides: the id is present with
\* payload.new after an INSERT or UPDATE and absent after a DELETE.
C20_LastEventDecides ==
    \A i \in EventIds :
        IsSome(lastEv[i]) =>
            LET p == Val(lastEv[i]).payload
            IN IF p.eventType = "DELETE"
               THEN \A k \in 1..Len(state.contacts) : state.contacts[k].id # i
               ELSE \E k \in 1..Len(state.contacts) : state.contacts[k] = Val(p.new)

\* C20: last event wins for the contacts that are in the list. Since the
\* contacts were last loaded: no contact has an id whose last event was a
\* DELETE; every contact with an id whose last event was an UPDATE equals that
\* event's payload.new, and an UPDATE for an id that was not in the list adds
\* nothing; payload.new of a last INSERT is in the list as long as fewer events
\* than the cap have been applied (entries past the cap are dropped).
C20_LastEventWinsIfListed ==
    \A i \in EventIds :
        IsSome(lastEv[i]) =>
            LET p == Val(lastEv[i]).payload
                had == Val(lastEv[i]).had
                listed == { k \in 1..Len(state.contacts) : state.contacts[k].id = i }
            IN IF p.eventType = "DELETE"
               THEN listed = {}
               ELSE IF p.eventType = "UPDATE"
               THEN /\ \A k \in listed : state.contacts[k] = Val(p.new)
                    /\ ~had => listed = {}
               ELSE nEvents < ContactsLimit
                       => \E k \in listed : state.contacts[k] = Val(p.new)

\* Two events were applied for an id that was loaded: the later one, an INSERT,
\* put its payload.new in the list although the id was already there.
C20_Witness ==
    /\ nEvents = 2
    /\ IsSome(applied) /\ Val(applied).payload.eventType = "INSERT"
    /\ \E i \in EventIds :
          /\ IsSome(lastEv[i])
          /\ Val(lastEv[i]).payload = Val(applied).payload
          /\ Val(lastEv[i]).had
          /\ state.contacts[1] = Val(Val(applied).payload.new)

\* C21: in every reachable dashboard state, whatever the interleaving of fetches
\* and INSERT / UPDATE / DELETE events, contacts holds at most 100 records.
C21_ContactsCap == Len(state.contacts) <= 100

\* An INSERT has just been folded into a list that already held 100 records,
\* and the list still holds 100.
C21_Witness ==
    /\ IsSome(applied)
    /\ Val(applied).payload.eventType = "INSERT"
    /\ Len(Val(applied).before.contacts) = 100
    /\ Len(state.contacts) = 100
    /\ state.contacts[1] = Val(Val(applied).payload.new)

\* C23: the busy flags track the fetchData calls in flight: while any call is in
\* flight at least one of state.loading and ui.refreshing is true, and once the
\* component has mounted and no call is in flight both are false. (So the
\* timer, which starts a fetch only when both are false, never starts one while
\* another is in flight.)
C23_BusyFlagsTrackFetches ==
    /\ fetches > 0 => (state.loading \/ ui.refreshing)
    /\ (mounted /\ fetches = 0) => (~state.loading /\ ~ui.refreshing)

\* A fetchData call is in flight while both flags are false: the timer's
\* condition holds and it may start another.
C23_Witness ==
    /\ fetches > 0
    /\ ~state.loading /\ ~ui.refreshing
    /\ ENABLED TimerFetch

HasRow(contacts, row) == \E k \in 1..Len(contacts) : contacts[k] = row

\* C24: when a fetchData call completes successfully, contacts is exactly the
\* rows that fetch returned, so the row of a change event folded in while the
\* fetch was in flight is in contacts only if the fetched rows hold it; when a
\* fetchData call fails, contacts, campaigns, funnels and analytics are what
\* they were before (rows folded in while it was in flight included).
C24_FetchReplacesFeed ==
    IsSome(fetched) =>
        LET f == Val(fetched)
        IN IF IsSome(f.contacts)
           THEN /\ state.contacts = Val(f.contacts)
                /\ IsSome(f.foldedNew) =>
                      (HasRow(state.contacts, Val(f.foldedNew))
                          <=> HasRow(Val(f.contacts), Val(f.foldedNew)))
           ELSE /\ state.contacts = Val(f.dataBefore).contacts
                /\ state.campaigns = Val(f.dataBefore).campaigns
                /\ state.funnels = Val(f.dataBefore).funnels
                /\ state.analytics = Val(f.dataBefore).analytics

\* A change event was folded into contacts while a fetch was in flight, the
\* fetch then succeeded with 100 rows that do not hold the event's row, and
\* the row is gone from contacts.
C24_Witness ==
    /\ IsSome(fetched)
    /\ IsSome(Val(fetched).contacts)
    /\ IsSome(Val(fetched).foldedNew)
    /\ Len(state.contacts) = ContactsLimit
    /\ ~HasRow(state.contacts, Val(Val(fetched).foldedNew))

\* ======================================================================
\* Properties of wpFetch (checked under SpecWp)
\* ======================================================================

Is5xx(o) == o.kind = "response" /\ o.status >= 500

\* C16: with the default retries = 3 one wpFetch call issues at most 4 HTTP
\* attempts; after a 5xx response on attempt i < 3 (0-based) it waits 2^i
\* seconds and then tries again; and a call that has ended has either returned
\* the parsed JSON of its last attempt, a successful one, or thrown: it never
\* completes normally without a result.
C16_BoundedBackoff ==
    /\ wp.attempts <= 4
    /\ Len(wp.seen) <= wp.attempts
    /\ \A k \in 1..Len(wp.seen) :
          (Is5xx(wp.seen[k]) /\ k - 1 < 3) =>
             /\ wp.waits[k] = Pow2(k - 1) * 1000
             /\ wp.waits[k] \in {1000, 2000, 4000}
             /\ \/ wp.st = "waiting" /\ k = Len(wp.seen)
                \/ wp.attempts > k
    /\ wp.st = "waiting" => Is5xx(wp.seen[Len(wp.seen)])
    /\ wp.st = "returned" =>
          /\ IsSome(wp.result) /\ ~IsSome(wp.error)
          /\ Len(wp.seen) = wp.attempts
          /\ LET o == wp.seen[Len(wp.seen)]
             IN /\ o.kind = "response" /\ o.status = 200
                /\ o.contentJson /\ o.parses
                /\ Val(wp.result) = o.data
    /\ wp.st = "threw" => IsSome(wp.error) /\ ~IsSome(wp.result)

\* Three 5xx responses, each followed by its wait, and the fourth attempt
\* returned the parsed JSON.
C16_Witness ==
    /\ wp.st = "returned"
    /\ wp.attempts = 4
    /\ \A k \in 1..3 : Is5xx(wp.seen[k])
    /\ wp.waits = <<1000, 2000, 4000, 0>>
    /\ wp.result = Some("data")

\* C22: wpFetch issues a further attempt only after a response with status
\* >= 500; an attempt that ended any other way (a 4xx response, a response that
\* is not JSON, a network error, a timeout, a success) is the call's last, and
\* when it failed the call has thrown.
C22_RetryOnlyAfter5xx ==
    \A k \in 1..Len(wp.seen) :
        ~Is5xx(wp.seen[k]) =>
            /\ wp.attempts = k
            /\ wp.st \in {"returned", "threw"}

\* The first attempt was answered 404 and a second attempt has been issued,
\* without a wait.
C22_Witness ==
    /\ Len(wp.seen) >= 1
    /\ wp.seen[1].kind = "response" /\ wp.seen[1].status = 404
    /\ wp.waits[1] = 0
    /\ wp.attempts = 2
    /\ wp.st = "fetching"

\* ======================================================================
\* Properties of the lead ingestion plugin (checked under SpecLead)
\* ======================================================================

LeadAnswered == lead.st = "done"
IsLeadsRequest == lead.st # "idle" /\ lead.req.route.path = "/leads"

\* A request field that is missing or the empty string.
MissingOrEmpty(opt) == opt = None \/ opt = Some("")

\* The request carries a key that matches a stored row with is_active = 1.
HasActiveKey ==
    /\ IsSome(lead.req.key)
    /\ \E row \in ApiKeyRows : row.api_key = Val(lead.req.key) /\ row.is_active = 1

\* The request passes what the server checks before the permission callback:
\* its route's callback exists, email is a valid address and first_name is
\* present.
ReachesGate ==
    /\ lead.req.route.path = "/leads"
    /\ IsSome(lead.req.params.email) /\ IsEmail(Val(lead.req.params.email))
    /\ IsSome(lead.req.params.first_name)

\* This request has written no contact, sent no webhook and scheduled nothing.
NoRecordNoWebhook ==
    /\ lead.inserts = 0 /\ lead.updates = 0
    /\ crm_contacts = lead.contactsBefore
    /\ lead.posts = 0 /\ lead.scheduled = 0
    /\ cron = lead.cronBefore

\* C11 as stated: a lead request whose email or first_name is missing or empty
\* is answered 400, and no record is written and no webhook sent for it.
C11_MissingFieldIs400 ==
    (LeadAnswered /\ IsLeadsRequest
       /\ (MissingOrEmpty(lead.req.params.email) \/ MissingOrEmpty(lead.req.params.first_name)))
    => (Val(lead.reply).status = 400 /\ NoRecordNoWebhook)

\* C11: a lead request whose email or first_name is missing or empty never
\* gets as far as the record or the webhook. It is answered 400, except that a
\* request with a valid email, an empty first_name and no active API key is
\* answered 401, because the key is checked before create_contact looks at the
\* fields.
C11_MissingFieldRejected ==
    (IsLeadsRequest
       /\ (MissingOrEmpty(lead.req.params.email) \/ MissingOrEmpty(lead.req.params.first_name)))
    => /\ NoRecordNoWebhook
       /\ lead.st \in {"permission", "callback", "done"}
       /\ LeadAnswered =>
             /\ Val(lead.reply).status \in {400, 401}
             /\ Val(lead.reply).status = 401 <=> (ReachesGate /\ ~HasActiveKey)

\* create_contact itself rejected a request: the email is valid, the key is
\* active, first_name is empty.
C11_Witness ==
    /\ LeadAnswered /\ IsLeadsRequest
    /\ lead.req.params.first_name = Some("")
    /\ HasActiveKey
    /\ lead.handlerRan
    /\ Val(lead.reply).status = 400
    /\ Val(lead.reply).code = "missing_required_fields"
    /\ nLead = 2 /\ Len(crm_contacts) = 1 /\ NoRecordNoWebhook

C13_OneContactPerEmail ==
    /\ \A i, j \in 1..Len(crm_contacts) :
          crm_contacts[i].email = crm_contacts[j].email => i = j
    /\ \A i \in 1..Len(lead.contactsBefore) :
          (IsLeadsRequest /\ lead.req.params.email = Some(lead.contactsBefore[i].email)) =>
             /\ lead.inserts = 0
             /\ Len(crm_contacts) = Len(lead.contactsBefore)
             /\ lead.st \in {"webhook", "done"} /\ lead.handlerRan /\ IsSome(lead.existing)
                   => lead.contact_id = lead.contactsBefore[i].ID
             /\ (LeadAnswered /\ Val(lead.reply).success)
                   => Val(lead.reply).contact_id = lead.contactsBefore[i].ID

\* The second request for an email was answered with the ID of the contact
\* the first one created, and there is still one contact.
C13_Witness ==
    /\ nLead = 2 /\ LeadAnswered /\ IsLeadsRequest
    /\ Len(crm_contacts) = 1
    /\ lead.req.params.email = Some(crm_contacts[1].email)
    /\ crm_contacts[1].created_at = 1
    /\ lead.updates = 1
    /\ Val(lead.reply).status = 201
    /\ Val(lead.reply).contact_id = crm_contacts[1].ID

\* The webhook step of this request has run.
WebhookStepDone == LeadAnswered /\ lead.hooks = 1

\* C17: when the webhook POST returned an error, exactly one task
\* 'enterprise_crm_retry_webhook' was scheduled, for 300 seconds later, with
\* the payload of that POST as its argument; when the POST was handed off, or
\* no webhook URL is configured, nothing was scheduled.
C17_RetryScheduled ==
    /\ WebhookStepDone =>
          IF lead.posted = Some(FALSE)
          THEN /\ lead.scheduled = 1
               /\ Len(cron) = Len(lead.cronBefore) + 1
               /\ SubSeq(cron, 1, Len(lead.cronBefore)) = lead.cronBefore
               /\ LET task == cron[Len(cron)]
                  IN /\ task.hook = "enterprise_crm_retry_webhook"
                     /\ task.timestamp = lead.at + 300
                     /\ task.args = <<Val(lead.payload)>>
          ELSE /\ lead.scheduled = 0
               /\ cron = lead.cronBefore
               /\ (lead.req.url = "") <=> (lead.posts = 0)
    /\ ~WebhookStepDone => cron = lead.cronBefore

\* Two requests in a row had their webhook POST fail: two retry tasks, the
\* second due 300 seconds after the second request.
C17_Witness ==
    /\ WebhookStepDone
    /\ lead.posted = Some(FALSE)
    /\ Len(cron) = 2
    /\ cron[2].timestamp = 302
    /\ cron[2].args = <<Val(lead.payload)>>
    /\ cron[1].args # cron[2].args

\* C18: once the record was created or updated, the request is answered 201
\* with success = true and the contact's ID, whatever the webhook did;
\* webhook_triggered is false exactly when trigger_pipedream_webhook returned
\* an error (the POST failed, or no URL is configured); and the record stays
\* stored.
C18_FireAndForget ==
    (LeadAnswered /\ lead.inserts + lead.updates > 0) =>
        /\ Val(lead.reply).status = 201
        /\ Val(lead.reply).success
        /\ Val(lead.reply).contact_id = lead.contact_id
        /\ Val(lead.reply).webhook_triggered
              <=> ~(lead.req.url = "" \/ lead.posted = Some(FALSE))
        /\ \E i \in 1..Len(crm_contacts) :
              /\ crm_contacts[i].ID = lead.contact_id
              /\ lead.req.params.email = Some(crm_contacts[i].email)
              /\ crm_contacts[i].post_modified = lead.at

\* A contact was created, the webhook POST failed, and the request was still
\* answered 201 with the new contact's ID and webhook_triggered = false.
C18_Witness ==
    /\ LeadAnswered
    /\ lead.inserts = 1
    /\ lead.posted = Some(FALSE)
    /\ Val(lead.reply).status = 201
    /\ Val(lead.reply).contact_id = Len(crm_contacts)
    /\ ~Val(lead.reply).webhook_triggered
    /\ lead.scheduled = 1

\* The write step of this request has run (wp_update_post or wp_insert_post was
\* called).
WriteStepDone ==
    \/ lead.st = "webhook"
    \/ LeadAnswered /\ lead.handlerRan /\ Val(lead.reply).code # "missing_required_fields"

\* wp_insert_post was called for this request and created nothing.
CreateFailed == WriteStepDone /\ ~IsSome(lead.existing) /\ lead.inserts = 0

\* C27: the 'lead_created' webhook of a request is sent only after the
\* request's contact record was created or updated, and carries that record's
\* ID as contact_id; and when creating the record failed, the request is
\* answered with a 500 error, no webhook is sent and the action
\* 'enterprise_crm_contact_created' is not fired.
C27_WebhookAfterRecord ==
    /\ lead.posts > 0 =>
          /\ lead.inserts + lead.updates > 0
          /\ Val(lead.payload).event = "lead_created"
          /\ Val(lead.payload).data.contact_id = lead.contact_id
          /\ \E i \in 1..Len(crm_contacts) : crm_contacts[i].ID = lead.contact_id
    /\ CreateFailed =>
          /\ lead.posts = 0
          /\ lead.hooks = 0
          /\ LeadAnswered => Val(lead.reply).status = 500

\* Creating the record failed (no contact was stored), yet the webhook was
\* posted with contact_id 0, the action was fired and the reply is a 201.
C27_Witness ==
    /\ LeadAnswered /\ CreateFailed
    /\ crm_contacts = lead.contactsBefore
    /\ lead.posts = 1
    /\ Val(lead.payload).data.contact_id = 0
    /\ lead.hooks = 1
    /\ Val(lead.reply).status = 201
    /\ Val(lead.reply).contact_id = 0

\* ======================================================================
\* Properties of concurrent lead requests and of the webhook retry (checked
\* under SpecLeadConc)
\* ======================================================================

AllAnswered == \A r \in ConcReqIds : reqs[r].st \in {"idle", "done"}

\* C25: when lead requests carrying the same email are handled concurrently,
\* in any interleaving of their lookups and inserts, at most one contact
\* record with that email exists once they are answered.
C25_UniqueEmailConcurrent ==
    AllAnswered =>
        \A i, j \in 1..Len(crm_contacts) :
            crm_contacts[i].email = crm_contacts[j].email => i = j

\* Two requests with the same email were handled at the same time, each
\* inserted a contact, and two records with that email are stored.
C25_Witness ==
    /\ AllAnswered
    /\ reqs[1].params = reqs[2].params
    /\ reqs[1].inserts = 1 /\ reqs[2].inserts = 1
    /\ reqs[1].contact_id # reqs[2].contact_id
    /\ Len(crm_contacts) = 2
    /\ crm_contacts[1].email = crm_contacts[2].email

\* C26: a webhook payload whose delivery failed is posted again to the webhook
\* URL once its retry time has passed: every retry event that cron has run has
\* had its payload posted again.
C26_RetryDelivers ==
    \A k \in 1..Len(cronRan) :
        cronRan[k].hook = "enterprise_crm_retry_webhook"
            => \E j \in 1..Len(reposted) : reposted[j] = cronRan[k].args[1]

\* A webhook POST failed, its retry came due 300 seconds later and cron ran
\* it, and nothing was posted again.
C26_Witness ==
    /\ Len(cronRan) >= 1
    /\ cronRan[1].timestamp <= now
    /\ \E r \in ConcReqIds : reqs[r].posted = Some(FALSE)
    /\ cron = <<>>
    /\ reposted = <<>>

\* ======================================================================
\* Properties of the checkout handler (checked under SpecCheckout)
\* ======================================================================

\* The sessions created by the call of request r.
SessionsOf(r) == {i \in 1..Len(sessions) : sessions[i].by = r}

\* C9: the unit_amount of a created session is the price of the bot record
\* times 100; a bot priced 10 gives a unit_amount of 1000.
C9_UnitAmount ==
    \A i \in 1..Len(sessions) :
        LET bot == BotRows[co[sessions[i].by].body.bot_id]
        IN /\ sessions[i].params.unit_amount = bot.price * 100
           /\ bot.price = 10 => sessions[i].params.unit_amount = 1000

\* A session was created for the bot priced 10, with unit_amount 1000, and one
\* for a bot with another price.
C9_Witness ==
    \E i, j \in 1..Len(sessions) :
        /\ co[sessions[i].by].body.bot_id = "bot10"
        /\ sessions[i].params.unit_amount = 1000
        /\ co[sessions[j].by].body.bot_id = "bot25"
        /\ sessions[j].params.unit_amount = 2500

\* C10 as stated: every request that has run to its end made exactly one bot
\* lookup and created exactly one payment session, with the request's bot_id
\* and user_id in its metadata, and was answered with that session's id.
C10_EveryRequestCreatesOne ==
    \A r \in CoReqIds :
        co[r].st \in {"done", "threw"} =>
            /\ co[r].lookups = 1
            /\ Cardinality(SessionsOf(r)) = 1
            /\ \A i \in SessionsOf(r) :
                  /\ sessions[i].params.metadata =
                        [bot_id |-> co[r].body.bot_id, user_id |-> co[r].body.user_id]
                  /\ co[r].replies = << [id |-> sessions[i].id] >>

\* C10, amended: every request makes exactly one bot lookup and creates at
\* most one payment session. A request is answered only after its own session
\* was created: then there is exactly one session of that request, its
\* metadata carries the request's bot_id and user_id, and the reply's id is
\* that session's id. A request whose lookup finds no bot, or whose session
\* creation fails, creates no session and sends no reply.
C10_AtMostOneSession ==
    \A r \in CoReqIds :
        /\ co[r].st # "idle" => co[r].lookups = 1
        /\ co[r].creates <= 1
        /\ Cardinality(SessionsOf(r)) <= co[r].creates
        /\ \A i \in SessionsOf(r) :
              sessions[i].params.metadata =
                  [bot_id |-> co[r].body.bot_id, user_id |-> co[r].body.user_id]
        /\ co[r].st = "done" =>
              /\ Cardinality(SessionsOf(r)) = 1
              /\ \A i \in SessionsOf(r) : co[r].replies = << [id |-> sessions[i].id] >>
        /\ co[r].st # "done" => co[r].replies = << >> /\ SessionsOf(r) = {}
        /\ (co[r].st = "threw" /\ ~IsSome(BotLookup(co[r].body.bot_id)))
              => co[r].creates = 0

\* Two requests were answered, each with the id of its own session, the
\* sessions created in the reverse order of the requests' numbers.
C10_Witness ==
    \E r, q \in CoReqIds :
        /\ r < q
        /\ co[r].st = "done" /\ co[q].st = "done"
        /\ co[r].body.user_id # co[q].body.user_id
        /\ \E i \in SessionsOf(r), j \in SessionsOf(q) :
              /\ j < i
              /\ co[r].replies = << [id |-> sessions[i].id] >>
              /\ co[q].replies = << [id |-> sessions[j].id] >>

\* The bot lookup of request r has returned no record.
LookupFoundNothing(r) ==
    /\ co[r].st \notin {"idle", "lookup"}
    /\ ~IsSome(BotLookup(co[r].body.bot_id))

\* C28: when the bot lookup returns no record for the request's bot_id, no
\* payment session is created (sessions.create is not even called) and no
\* {id} reply is sent for that request.
C28_MissingBotNoSession ==
    \A r \in CoReqIds :
        LookupFoundNothing(r) =>
            /\ co[r].st = "threw"
            /\ co[r].creates = 0
            /\ ~IsSome(co[r].params)
            /\ \A i \in 1..Len(sessions) : sessions[i].by # r
            /\ co[r].replies = << >>

\* A request for a bot_id without a record has ended without a session or a
\* reply, while another request, for a bot that exists, got both.
C28_Witness ==
    \E r, q \in CoReqIds :
        /\ co[r].body.bot_id = "nobot"
        /\ LookupFoundNothing(r)
        /\ co[r].st = "threw" /\ co[r].replies = << >>
        /\ co[q].st = "done"
        /\ Len(sessions) = 1 /\ sessions[1].by = q
        /\ Len(co[q].replies) = 1

\* ======================================================================
\* Properties of the funnel workflow (checked under SpecFunnel)
\* ======================================================================

\* C29: a journey's steps are executed one at a time in the order of
\* step_order, starting from 1, none skipped and none twice, and each executed
\* step has set current_step to its step_order; a journey is completed only
\* when its funnel has no step with step_order = current_step + 1.
C29_StepAdvancement ==
    \A j \in DOMAIN journeys :
        /\ executed[j] = [k \in 1..Len(executed[j]) |-> k]
        /\ journeys[j].current_step = Len(executed[j])
        /\ journeys[j].status = "completed" => ~IsSome(FindNextStep(journeys[j]))

\* Step 1 of a journey was executed in one run and, its current_step still
\* being 0, executed again in the next.
C29_Witness ==
    /\ journeys # << >>
    /\ executed[1] = <<1, 1>>
    /\ journeys[1].current_step <= 1
    /\ journeys[1].status = "active"

\* C30: a journey whose step failed keeps its current_step and is counted in
\* errors; the loop goes on after a failure, so at any point of a run over a
\* non-empty batch processed + errors is the number of journeys handled so
\* far, and at the end of the run it is the number of journeys fetched, which
\* is at most 50.
C30_FailureIsolation ==
    /\ wfRun.errors = Len(wfRun.log)
    /\ \A k \in 1..Len(wfRun.log) :
          /\ journeys[wfRun.log[k].journey_id].current_step = wfRun.log[k].step - 1
          /\ journeys[wfRun.log[k].journey_id].status = "active"
    /\ wfRun.batch # << >> =>
          /\ wfRun.st \in {"loop", "done"}
          /\ Len(wfRun.batch) <= 50
          /\ wfRun.processed + wfRun.errors = wfRun.i - 1
          /\ wfRun.st = "done" =>
                /\ wfRun.i = Len(wfRun.batch) + 1
                /\ Val(wfRun.result).processed + Val(wfRun.result).errors = Len(wfRun.batch)

\* A run over a full batch of 50 has ended: the step of its first journey
\* failed and that journey is where it was, the journeys after it were
\* processed, and the counts add up to 50.
C30_Witness ==
    /\ wfRun.st = "done"
    /\ Len(wfRun.batch) = 50
    /\ Len(wfRun.log) >= 1 /\ wfRun.log[1].journey_id = 1
    /\ journeys[1].current_step = 0
    /\ journeys[50].status = "completed"
    /\ Val(wfRun.result).errors >= 1
    /\ Val(wfRun.result).processed = 50 - Val(wfRun.result).errors

====
